---- MODULE Spec2Model ----
(***************************************************************************)
(* A model of the crawl core of web_scraper_django:                        *)
(*   - WebDriverPool            (scraper/driver_pool.py)                    *)
(*   - ChromeDriverPool         (scraper/performance_optimizer.py)          *)
(*   - URLQueueManager          (scraper/performance_optimizer.py)          *)
(*   - comprehensive_crawl_site (scraper/views.py)                          *)
(*   - EnhancedWebCrawler       (scraper/enhanced_crawler.py)               *)
(*   - OptimizedWebCrawler      (scraper/optimized_crawler.py)              *)
(* Each component has its own specification over the shared variables; the *)
(* variables of the other components stay at their constructed values.     *)
(***************************************************************************)
EXTENDS Integers, Sequences, FiniteSets, TLC

(***************************************************************************)
(* Bounds of the model.                                                    *)
(***************************************************************************)
\* worker threads of the executors that call into the two driver pools
NumWorkers == 3
\* max_drivers given to WebDriverPool / ChromeDriverPool (scaled down)
MaxDrivers == 2

\* threads that call URLQueueManager.add_urls at the same time
NumCallers == 2
\* distinct URLs of the modelled site
NumUrls == 3

\* pages of the site crawled by the single-threaded crawl loops
NumDeepUrls == 6
\* max_depth given to EnhancedWebCrawler / crawl_site (scaled down)
MaxDepth == 3
\* max_pages given to EnhancedWebCrawler / crawl_site (scaled down)
MaxPages == 5

\* max_workers of comprehensive_crawl_site (min(16, 2 * cpu_count))
max_workers == 2
\* max_urls of comprehensive_crawl_site (views.py:378 sets 1000; scaled down)
max_urls == 4
\* max_depth of comprehensive_crawl_site (views.py:379 sets 15; scaled down)
max_depth == 1
\* rate_limit given to RateLimiter: the capacity of the bucket, in tokens
RateLimit == 2
\* resolution of the clock: a tick is the time in which the bucket gains
\* 1 / TokenUnit of a token, so _tokens is counted in TokenUnit-ths
TokenUnit == 2
\* the clock of the RateLimiter runs from 0 to MaxTime ticks
MaxTime == 7
\* coroutines that call RateLimiter.acquire
NumAcquirers == 2
\* config.max_workers of OptimizedWebScraper: its crawl_worker coroutines
NumScrapers == 2
\* successive calls of OptimizedScraper.scrape_multiple_urls in one process
NumRuns == 2
\* close_all is followed while WebDriverPool has made fewer drivers than this
MaxMade == 2
\* the longest url string, in pieces
MaxUrlLen == 4
\* the invocations of retry_failed_urls followed
MaxRetryCalls == 5
\* threads that call put, get and clear of one ThreadSafeQueue
NumThreads == 3
\* put is followed while the queue holds, and _size counts, fewer than this
MaxItems == 4
\* async_scrape_project tasks sent to the workers
NumTasks == 2

Workers == 1..NumWorkers
Callers == 1..NumCallers
Urls == 1..NumUrls
DUrls == 1..NumDeepUrls
Slots == 1..max_workers
\* the seed / base url of a crawl
StartUrl == 1

\* Python's None for a driver reference
None == <<>>

VARIABLES
    \* ---- WebDriverPool (driver_pool.py:10-16)
    wp_drivers,     \* self._drivers   : list of drivers created by the pool
    wp_available,   \* self._available : list of idle drivers
    wp_lock,        \* self._lock      : 0 when free, else the holding worker
    \* ---- ChromeDriverPool (performance_optimizer.py:30-34)
    cp_queue,       \* self.drivers    : Queue(maxsize=max_drivers)
    cp_created,     \* self.created_drivers
    cp_lock,        \* self.lock       : 0 when free, else the holding worker
    cp_quit,        \* drivers on which driver.quit() was called (line 88)
    \* ---- the worker threads using the pools
    w_pc,           \* position of each worker in its page function
    w_driver,       \* the local variable `driver` of each worker
    tainted,        \* history: drivers on which navigation/extraction raised
    wp_made,        \* history: the drivers WebDriverPool has created so far
    wp_dropped,     \* history: drivers return_driver did not take back
    \* ---- URLQueueManager (performance_optimizer.py:170-173)
    uq_queue,       \* self.queue          : Queue of (url, depth)
    uq_processed,   \* self.processed_urls : set of urls
    uq_lock,        \* self.lock           : 0 when free, else the holding caller
    uq_puts,        \* history: how often each url was put on the queue
    t_pc,           \* position of each thread that calls add_urls
    t_urls,         \* its argument `urls`
    t_depth,        \* its argument `depth`
    t_i,            \* its position in `for url in urls`
    t_added,        \* its local counter `added`
    \* ---- EnhancedWebCrawler (enhanced_crawler.py:23-54, 345-434)
    e_phase,        \* "new", "crawling" (inside the while loop) or "done"
    e_site,         \* the site being crawled (input)
    e_parser,       \* self.robots_parser is not None
    e_disallow,     \* urls for which robots_parser.can_fetch answers False
    e_raises,       \* urls for which robots_parser.can_fetch raises
    e_priority,     \* self.priority_queue   : deque of (url, depth)
    e_normal,       \* self.normal_queue     : deque of (url, depth)
    e_flood,        \* self.flood_fill_queue : deque of (url, depth)
    e_discovered,   \* self.discovered_urls
    e_crawled,      \* self.crawled_urls
    e_failed,       \* self.failed_urls
    e_count,        \* crawl_count
    e_loaded,       \* history: the (url, depth) tasks given to driver.get
    e_attempts,     \* history: how often driver.get was called on each url
    e_enq,          \* history: (depth of page, depth of task) of each link enqueued
    e_robots_skipped, \* history: urls passed over at enhanced_crawler.py:376-378
    \* ---- comprehensive_crawl_site (views.py:367-688)
    v_phase,        \* "new", "loop" (between batches), "batch" or "done"
    v_site,         \* the site being crawled (input)
    v_disallow,     \* urls the site's robots.txt disallows (input)
    v_queue,        \* url_queue : Queue of (url, depth)
    v_visited,      \* visited
    v_lock,         \* visited_lock : 0 when free, else the holding slot
    v_count,        \* processed_count
    v_slot,         \* the executor's threads: each runs comprehensive_process_url
    v_loaded,       \* history: the (url, depth) tasks given to driver.get
    v_loads,        \* history: how often driver.get was called on each url
    v_enq,          \* history: (depth of page, depth of task) of each link found
    \* ---- OptimizedWebCrawler.crawl_site (optimized_crawler.py:39-176)
    c_phase,        \* "new", "loop" (at the while test), "batch" or "done"
    c_site,         \* the site being crawled (input)
    c_max_depth,    \* the argument max_depth
    c_max_pages,    \* the argument max_pages
    c_todo,         \* urls_to_process : list of (url, depth) tasks
    c_pending,      \* tasks of the batch whose future is not done yet
    c_held,         \* urls of the batch whose worker holds a driver of the pool
    c_results,      \* batch_results, in order of completion
    c_processed,    \* processed_urls
    c_visited,      \* self._visited_urls
    c_errors,       \* self._stats['errors']
    c_rendered,     \* history: (url, link hops from the seed) given to driver.get
    c_enq,          \* history: (depth the page was queued with, depth of task)
    c_submits,      \* history: how often each url was submitted to a worker
    \* ---- RateLimiter (async_requests.py:127-154)
    rl_tokens,      \* self._tokens, in TokenUnit-ths of a token
    rl_last,        \* self._last_update, in ticks
    rl_lock,        \* self._lock : 0 when free, else the holding coroutine
    rl_now,         \* time.time(), in ticks
    rl_pc,          \* position of each coroutine: "idle" or "sleeping"
    rl_wake,        \* when the asyncio.sleep of a sleeping coroutine is over
    rl_granted,     \* history: how many acquire calls returned at each tick
    \* ---- OptimizedWebScraper (optimized_scraper.py:153-347)
    s_phase,        \* "new", "running" (inside gather) or "done"
    s_queue,        \* self.url_queue : the urls of the queued tasks
    s_visited,      \* self.visited_urls
    s_results,      \* self.results : the urls whose content was stored
    s_pc,           \* position of each crawl_worker: "get", "process",
                    \* "render" or "exited"
    s_task,         \* the url of the task a crawl_worker holds (0: none)
    s_taken,        \* history: how often each url was taken from the queue
    \* ---- OptimizedScraper.scrape_multiple_urls (optimized_views.py:64-106),
    \*      working on the module-level url_manager (uq_queue, uq_processed)
    m_run,          \* number of the current call (0: none yet)
    m_phase,        \* "idle" (no call running), "loop" or "batch"
    m_site,         \* the site being scraped (input)
    m_max_depth,    \* the argument max_depth
    m_seed,         \* the argument urls (one seed url) of the current call
    m_batch,        \* batch: tasks whose future is not done yet
    m_size,         \* len(batch)
    m_count,        \* processed_count
    m_results,      \* all_results : the urls scraped by the current call
    m_admitted,     \* history: urls the current call put on the queue
    m_before        \* history: urls earlier calls put on the queue

poolVars == <<wp_drivers, wp_available, wp_lock, cp_queue, cp_created, cp_lock,
              cp_quit, w_pc, w_driver, tainted, wp_made, wp_dropped>>

uqVars == <<uq_queue, uq_processed, uq_lock, uq_puts, t_pc, t_urls, t_depth,
            t_i, t_added>>

enhVars == <<e_phase, e_site, e_parser, e_disallow, e_raises, e_priority,
             e_normal, e_flood, e_discovered, e_crawled, e_failed, e_count,
             e_loaded, e_attempts, e_enq, e_robots_skipped>>

viewsVars == <<v_phase, v_site, v_disallow, v_queue, v_visited, v_lock, v_count, v_slot,
               v_loaded, v_loads, v_enq>>

crawlVars == <<c_phase, c_site, c_max_depth, c_max_pages, c_todo, c_pending,
               c_held,
               c_results, c_processed, c_visited, c_errors, c_rendered, c_enq,
               c_submits>>

rateVars == <<rl_tokens, rl_last, rl_lock, rl_now, rl_pc, rl_wake, rl_granted>>

scrapeVars == <<s_phase, s_queue, s_visited, s_results, s_pc, s_task, s_taken>>

runsVars == <<m_run, m_phase, m_site, m_max_depth, m_seed, m_batch, m_size,
              m_count, m_results, m_admitted, m_before>>

\* views.py:32-41, 283-305: the module globals scraped_data and
\* scrape_progress['status'] shared by every run started through index(),
\* and each run's background thread
VARIABLES ix_data, ix_status, ix_pc, ix_extracted, ix_saved

indexVars == <<ix_data, ix_status, ix_pc, ix_extracted, ix_saved>>

\* async_requests.py:104-117, enhanced_crawler.py:143-151: two url strings
\* given to the url functions, and what the functions returned for them
VARIABLES n_pc, n_a, n_b, n_na, n_nna, n_nb, n_valid

urlVars == <<n_pc, n_a, n_b, n_na, n_nna, n_nb, n_valid>>

\* tasks.py:108-118, 137-159: the status and the error message of every
\* EnhancedMainURL row of a project, the times retry_failed_urls has run and
\* the times it has reset each row
VARIABLES r_status, r_error, r_calls, r_resets

retryVars == <<r_status, r_error, r_calls, r_resets>>

\* threading_manager.py:93-99: the queue.Queue of a ThreadSafeQueue (its
\* items are counted), its counter _size and its lock, and the position of
\* each thread inside put ("put_size") or get ("get_size")
VARIABLES tq_items, tq_size, tq_lock, tq_pc

tsqVars == <<tq_items, tq_size, tq_lock, tq_pc>>

\* tasks.py:15-105: every async_scrape_project task: its position, its
\* self.request.retries, the status of the CrawlSession of the current run
\* ("unbound" while the local `session` is not assigned), and the exception
\* that ended its last run ("" when none did)
VARIABLES k_pc, k_retries, k_session, k_raised

taskVars == <<k_pc, k_retries, k_session, k_raised>>

vars == <<poolVars, uqVars, enhVars, viewsVars, crawlVars, rateVars,
          scrapeVars, runsVars, indexVars, urlVars, retryVars, tsqVars,
          taskVars>>

\* what the actions of one component leave alone
nonPoolVars == <<uqVars, enhVars, viewsVars, crawlVars, rateVars,
    scrapeVars, runsVars, indexVars,
    urlVars, retryVars, tsqVars, taskVars>>
nonUqVars == <<poolVars, enhVars, viewsVars, crawlVars, rateVars,
    scrapeVars, runsVars, indexVars,
    urlVars, retryVars, tsqVars, taskVars>>
nonEnhVars == <<poolVars, uqVars, viewsVars, crawlVars, rateVars,
    scrapeVars, runsVars, indexVars,
    urlVars, retryVars, tsqVars, taskVars>>
nonViewsVars == <<poolVars, uqVars, enhVars, crawlVars, rateVars,
    scrapeVars, runsVars, indexVars,
    urlVars, retryVars, tsqVars, taskVars>>
nonCrawlVars == <<poolVars, uqVars, enhVars, viewsVars, rateVars,
    scrapeVars, runsVars, indexVars,
    urlVars, retryVars, tsqVars, taskVars>>
nonRateVars == <<poolVars, uqVars, enhVars, viewsVars, crawlVars,
    scrapeVars, runsVars, indexVars,
    urlVars, retryVars, tsqVars, taskVars>>
nonScrapeVars == <<poolVars, uqVars, enhVars, viewsVars, crawlVars, rateVars,
    runsVars, indexVars,
    urlVars, retryVars, tsqVars, taskVars>>
\* a call of scrape_multiple_urls works on url_manager from one thread
nonRunsVars == <<poolVars, enhVars, viewsVars, crawlVars, rateVars, scrapeVars,
    uq_lock, t_pc, t_urls, t_depth, t_i, t_added, indexVars,
    urlVars, retryVars, tsqVars, taskVars>>

\* the variables of the components above
coreVars == <<poolVars, uqVars, enhVars, viewsVars, crawlVars, rateVars,
    scrapeVars, runsVars>>

\* drivers are named by the pool that created them and a serial number
WpDriver(n) == <<"WebDriverPool", n>>
CpDriver(n) == <<"ChromeDriverPool", n>>

SeqToSet(s) == {s[i] : i \in 1..Len(s)}

(***************************************************************************)
(* Construction: WebDriverPool.__init__, ChromeDriverPool.__init__.        *)
(***************************************************************************)
PoolInit ==
    /\ wp_drivers = <<>>
    /\ wp_available = <<>>
    /\ wp_lock = 0
    /\ cp_queue = <<>>
    /\ cp_created = 0
    /\ cp_lock = 0
    /\ cp_quit = {}
    /\ w_pc = [w \in Workers |-> "idle"]
    /\ w_driver = [w \in Workers |-> None]
    /\ tainted = {}
    /\ wp_made = 0
    /\ wp_dropped = {}

(***************************************************************************)
(* WebDriverPool, as used by OptimizedWebCrawler._process_single_page.     *)
(***************************************************************************)
\* `with self._lock:` can be entered only while no other thread holds it
LockIgnored(l) == TRUE
LockFree(l) == l = 0

\* The two pools belong to two crawlers, each with an executor of its own
\* (OptimizedWebCrawler: threading_manager.py:14, OptimizedScraper:
\* optimized_views.py:21), and share no state: a behaviour follows the
\* worker threads of one of the two executors.
WpIdle == wp_made = 0 /\ wp_lock = 0
CpIdle == cp_created = 0 /\ \A w \in Workers : w_pc[w] # "cp_lock"

\* driver_pool.py:51  `len(self._drivers) < self.max_drivers`
WpHasCapacityOffByOne(n) == n <= MaxDrivers
WpHasCapacity(n) == n < MaxDrivers

\* driver_pool.py:49  list.pop(): the list without its last element
ListPopKeeps(l) == l
ListPop(l) == SubSeq(l, 1, Len(l) - 1)

\* optimized_crawler.py:121 + driver_pool.py:47: the worker starts a page
\* and enters get_driver's critical section
WpGetDriverEnter(w) ==
    /\ w_pc[w] = "idle"
    /\ CpIdle
    /\ LockFree(wp_lock)
    /\ wp_lock' = w
    /\ w_pc' = [w_pc EXCEPT ![w] = "wp_get"]
    /\ UNCHANGED <<wp_drivers, wp_available, cp_queue, cp_created, cp_lock,
                   cp_quit, w_driver, tainted>>
    /\ UNCHANGED <<wp_made, wp_dropped>>
    /\ UNCHANGED nonPoolVars

\* driver_pool.py:48-57: the body of get_driver; leaving the `with` releases
\* the lock.  A None result makes _process_single_page return None (122-123).
WpGetDriverBody(w) ==
    /\ w_pc[w] = "wp_get"
    /\ wp_lock' = 0
    /\ IF wp_available # <<>>
       THEN /\ w_driver' = [w_driver EXCEPT ![w] = wp_available[Len(wp_available)]]
            /\ wp_available' = ListPop(wp_available)
            /\ w_pc' = [w_pc EXCEPT ![w] = "wp_navigate"]
            /\ UNCHANGED wp_drivers
       ELSE IF WpHasCapacity(Len(wp_drivers))
       THEN /\ w_driver' = [w_driver EXCEPT ![w] = WpDriver(wp_made + 1)]
            /\ wp_drivers' = Append(wp_drivers, WpDriver(wp_made + 1))
            /\ w_pc' = [w_pc EXCEPT ![w] = "wp_navigate"]
            /\ UNCHANGED wp_available
       ELSE /\ w_pc' = [w_pc EXCEPT ![w] = "idle"]
            /\ UNCHANGED <<wp_drivers, wp_available, w_driver>>
    /\ UNCHANGED <<cp_queue, cp_created, cp_lock, cp_quit, tainted>>
    /\ wp_made' = IF wp_available = <<>> /\ WpHasCapacity(Len(wp_drivers))
                   THEN wp_made + 1 ELSE wp_made
    /\ UNCHANGED wp_dropped
    /\ UNCHANGED nonPoolVars

\* optimized_crawler.py:127-140: driver.get(url) and the extraction succeed
WpNavigateOk(w) ==
    /\ w_pc[w] = "wp_navigate"
    /\ w_pc' = [w_pc EXCEPT ![w] = "wp_return"]
    /\ UNCHANGED <<wp_drivers, wp_available, wp_lock, cp_queue, cp_created,
                   cp_lock, cp_quit, w_driver, tainted>>
    /\ UNCHANGED <<wp_made, wp_dropped>>
    /\ UNCHANGED nonPoolVars

\* optimized_crawler.py:127,152: driver.get(url) raises; control goes to the
\* inner except clause
WpNavigateRaisesNoReturn(w) ==
    /\ w_pc[w] = "wp_navigate"
    /\ tainted' = tainted \cup {w_driver[w]}
    /\ w_pc' = [w_pc EXCEPT ![w] = "idle"]
    /\ UNCHANGED <<wp_drivers, wp_available, wp_lock, cp_queue, cp_created,
                   cp_lock, cp_quit, w_driver>>
    /\ UNCHANGED <<wp_made, wp_dropped>>
    /\ UNCHANGED nonPoolVars

WpNavigateRaises(w) ==
    /\ w_pc[w] = "wp_navigate"
    /\ tainted' = tainted \cup {w_driver[w]}
    /\ w_pc' = [w_pc EXCEPT ![w] = "wp_return"]
    /\ UNCHANGED <<wp_drivers, wp_available, wp_lock, cp_queue, cp_created,
                   cp_lock, cp_quit, w_driver>>
    /\ UNCHANGED <<wp_made, wp_dropped>>
    /\ UNCHANGED nonPoolVars

\* driver_pool.py:59-63, called at optimized_crawler.py:143 (success) and
\* :153 (inside the except clause): the same call on both paths
WpReturnDriverUnchecked(w) ==
    /\ w_pc[w] = "wp_return"
    /\ LockFree(wp_lock)
    /\ wp_available' = Append(wp_available, w_driver[w])
    /\ w_driver' = [w_driver EXCEPT ![w] = None]
    /\ w_pc' = [w_pc EXCEPT ![w] = "idle"]
    /\ UNCHANGED <<wp_drivers, wp_lock, cp_queue, cp_created, cp_lock, cp_quit,
                   tainted>>
    /\ wp_dropped' = IF w_driver[w] \in SeqToSet(wp_drivers)
                     THEN wp_dropped ELSE wp_dropped \cup {w_driver[w]}
    /\ UNCHANGED wp_made
    /\ UNCHANGED nonPoolVars

\* driver_pool.py:59-63, called at optimized_crawler.py:143 (success) and
\* :153 (inside the except clause): the same call on both paths
WpReturnDriver(w) ==
    /\ w_pc[w] = "wp_return"
    /\ LockFree(wp_lock)
    /\ wp_available' = IF w_driver[w] \in SeqToSet(wp_drivers)
                       THEN Append(wp_available, w_driver[w])
                       ELSE wp_available
    /\ w_driver' = [w_driver EXCEPT ![w] = None]
    /\ w_pc' = [w_pc EXCEPT ![w] = "idle"]
    /\ UNCHANGED <<wp_drivers, wp_lock, cp_queue, cp_created, cp_lock, cp_quit,
                   tainted>>
    /\ wp_dropped' = IF w_driver[w] \in SeqToSet(wp_drivers)
                     THEN wp_dropped ELSE wp_dropped \cup {w_driver[w]}
    /\ UNCHANGED wp_made
    /\ UNCHANGED nonPoolVars

\* driver_pool.py:65-74, called at optimized_crawler.py:251: under the lock
\* every driver of _drivers is quit and both lists are cleared
close_all ==
    /\ LockFree(wp_lock)
    /\ wp_drivers # <<>>
    /\ wp_made < MaxMade
    /\ wp_drivers' = <<>>
    /\ wp_available' = <<>>
    /\ UNCHANGED <<wp_lock, cp_queue, cp_created, cp_lock, cp_quit, w_pc,
                   w_driver, tainted, wp_made, wp_dropped>>
    /\ UNCHANGED nonPoolVars

(***************************************************************************)
(* ChromeDriverPool.get_driver, the context manager used by                *)
(* OptimizedScraper.scrape_url_optimized (optimized_views.py:27-62).       *)
(***************************************************************************)
\* performance_optimizer.py:73  `self.created_drivers < self.max_drivers`
CpHasCapacityOffByOne(n) == n <= MaxDrivers
CpHasCapacity(n) == n < MaxDrivers

\* performance_optimizer.py:70: drivers.get_nowait() finds an idle driver
CpGetNowait(w) ==
    /\ w_pc[w] = "idle"
    /\ WpIdle
    /\ cp_queue # <<>>
    /\ w_driver' = [w_driver EXCEPT ![w] = Head(cp_queue)]
    /\ cp_queue' = Tail(cp_queue)
    /\ w_pc' = [w_pc EXCEPT ![w] = "cp_body"]
    /\ UNCHANGED <<wp_drivers, wp_available, wp_lock, cp_created, cp_lock,
                   cp_quit, tainted>>
    /\ UNCHANGED <<wp_made, wp_dropped>>
    /\ UNCHANGED nonPoolVars

\* performance_optimizer.py:70-71: get_nowait() raises Empty
CpGetNowaitEmpty(w) ==
    /\ w_pc[w] = "idle"
    /\ WpIdle
    /\ cp_queue = <<>>
    /\ w_pc' = [w_pc EXCEPT ![w] = "cp_lock"]
    /\ UNCHANGED <<wp_drivers, wp_available, wp_lock, cp_queue, cp_created,
                   cp_lock, cp_quit, w_driver, tainted>>
    /\ UNCHANGED <<wp_made, wp_dropped>>
    /\ UNCHANGED nonPoolVars

\* performance_optimizer.py:72-77: under the lock, create a driver when the
\* pool has made fewer than max_drivers, else go on to wait (lock kept)
CpLocked(w) ==
    /\ w_pc[w] = "cp_lock"
    /\ LockFree(cp_lock)
    /\ IF CpHasCapacity(cp_created)
       THEN /\ w_driver' = [w_driver EXCEPT ![w] = CpDriver(cp_created + 1)]
            /\ cp_created' = cp_created + 1
            /\ w_pc' = [w_pc EXCEPT ![w] = "cp_body"]
            /\ UNCHANGED cp_lock
       ELSE /\ cp_lock' = w
            /\ w_pc' = [w_pc EXCEPT ![w] = "cp_wait"]
            /\ UNCHANGED <<cp_created, w_driver>>
    /\ UNCHANGED <<wp_drivers, wp_available, wp_lock, cp_queue, cp_quit,
                   tainted>>
    /\ UNCHANGED <<wp_made, wp_dropped>>
    /\ UNCHANGED nonPoolVars

\* performance_optimizer.py:79: drivers.get(timeout=10) receives a driver
CpWaitGets(w) ==
    /\ w_pc[w] = "cp_wait"
    /\ cp_queue # <<>>
    /\ w_driver' = [w_driver EXCEPT ![w] = Head(cp_queue)]
    /\ cp_queue' = Tail(cp_queue)
    /\ cp_lock' = 0
    /\ w_pc' = [w_pc EXCEPT ![w] = "cp_body"]
    /\ UNCHANGED <<wp_drivers, wp_available, wp_lock, cp_created, cp_quit,
                   tainted>>
    /\ UNCHANGED <<wp_made, wp_dropped>>
    /\ UNCHANGED nonPoolVars

\* performance_optimizer.py:79: the wait times out, Empty leaves get_driver
\* and is caught at optimized_views.py:60-62 (the worker returns None)
CpWaitTimeout(w) ==
    /\ w_pc[w] = "cp_wait"
    /\ cp_queue = <<>>
    /\ cp_lock' = 0
    /\ w_pc' = [w_pc EXCEPT ![w] = "idle"]
    /\ UNCHANGED <<wp_drivers, wp_available, wp_lock, cp_queue, cp_created,
                   cp_quit, w_driver, tainted>>
    /\ UNCHANGED <<wp_made, wp_dropped>>
    /\ UNCHANGED nonPoolVars

\* optimized_views.py:29-58: the body of the `with` block succeeds
CpBodyOk(w) ==
    /\ w_pc[w] = "cp_body"
    /\ w_pc' = [w_pc EXCEPT ![w] = "cp_put"]
    /\ UNCHANGED <<wp_drivers, wp_available, wp_lock, cp_queue, cp_created,
                   cp_lock, cp_quit, w_driver, tainted>>
    /\ UNCHANGED <<wp_made, wp_dropped>>
    /\ UNCHANGED nonPoolVars

\* optimized_views.py:32-45: driver.get / execute_script raises in the body
CpBodyRaises(w) ==
    /\ w_pc[w] = "cp_body"
    /\ tainted' = tainted \cup {w_driver[w]}
    /\ w_pc' = [w_pc EXCEPT ![w] = "cp_put"]
    /\ UNCHANGED <<wp_drivers, wp_available, wp_lock, cp_queue, cp_created,
                   cp_lock, cp_quit, w_driver>>
    /\ UNCHANGED <<wp_made, wp_dropped>>
    /\ UNCHANGED nonPoolVars

\* performance_optimizer.py:83-88: the finally clause of get_driver, run on
\* both paths: put_nowait, and quit the driver when the queue is full
CpFinally(w) ==
    /\ w_pc[w] = "cp_put"
    /\ IF Len(cp_queue) < MaxDrivers
       THEN /\ cp_queue' = Append(cp_queue, w_driver[w])
            /\ UNCHANGED cp_quit
       ELSE /\ cp_quit' = cp_quit \cup {w_driver[w]}
            /\ UNCHANGED cp_queue
    /\ w_driver' = [w_driver EXCEPT ![w] = None]
    /\ w_pc' = [w_pc EXCEPT ![w] = "idle"]
    /\ UNCHANGED <<wp_drivers, wp_available, wp_lock, cp_created, cp_lock,
                   tainted>>
    /\ UNCHANGED <<wp_made, wp_dropped>>
    /\ UNCHANGED nonPoolVars

\* performance_optimizer.py:90-97: cleanup takes every idle driver off the
\* queue and quits it; created_drivers is left as it is
cleanup ==
    /\ cp_queue # <<>>
    /\ cp_queue' = <<>>
    /\ cp_quit' = cp_quit \cup SeqToSet(cp_queue)
    /\ UNCHANGED <<wp_drivers, wp_available, wp_lock, cp_created, cp_lock,
                   w_pc, w_driver, tainted, wp_made, wp_dropped>>
    /\ UNCHANGED nonPoolVars


PoolNext ==
    \/ \E w \in Workers : WpGetDriverEnter(w)
    \/ \E w \in Workers : WpGetDriverBody(w)
    \/ \E w \in Workers : WpNavigateOk(w)
    \/ \E w \in Workers : WpNavigateRaises(w)
    \/ \E w \in Workers : WpReturnDriver(w)
    \/ \E w \in Workers : CpGetNowait(w)
    \/ \E w \in Workers : CpGetNowaitEmpty(w)
    \/ \E w \in Workers : CpLocked(w)
    \/ \E w \in Workers : CpWaitGets(w)
    \/ \E w \in Workers : CpWaitTimeout(w)
    \/ \E w \in Workers : CpBodyOk(w)
    \/ \E w \in Workers : CpBodyRaises(w)
    \/ \E w \in Workers : CpFinally(w)
    \/ close_all
    \/ cleanup

(***************************************************************************)
(* URLQueueManager (performance_optimizer.py:167-195).                     *)
(***************************************************************************)
UqInit ==
    /\ uq_queue = <<>>
    /\ uq_processed = {}
    /\ uq_lock = 0
    /\ uq_puts = [u \in Urls |-> 0]
    /\ t_pc = [t \in Callers |-> "idle"]
    /\ t_urls = [t \in Callers |-> <<>>]
    /\ t_depth = [t \in Callers |-> 0]
    /\ t_i = [t \in Callers |-> 0]
    /\ t_added = [t \in Callers |-> 0]

\* the url lists handed to add_urls: two different urls (every url is in two
\* of these lists), or the same url twice
UrlLists == {<<u, (u % NumUrls) + 1>> : u \in Urls} \cup {<<1, 1>>}

\* performance_optimizer.py:178  `with self.lock:`
UqLockIgnored(l) == TRUE
UqLockFree(l) == l = 0

\* performance_optimizer.py:175-177: add_urls(urls, depth) is called; the
\* callers differ in the depth they pass (optimized_views.py:69,97)
AddUrlsCall(t) ==
    /\ t_pc[t] = "idle"
    /\ \E urls \in UrlLists : t_urls' = [t_urls EXCEPT ![t] = urls]
    /\ t_depth' = [t_depth EXCEPT ![t] = t - 1]
    /\ t_i' = [t_i EXCEPT ![t] = 1]
    /\ t_added' = [t_added EXCEPT ![t] = 0]
    /\ t_pc' = [t_pc EXCEPT ![t] = "au_lock"]
    /\ UNCHANGED <<uq_queue, uq_processed, uq_lock, uq_puts>>
    /\ UNCHANGED nonUqVars

\* performance_optimizer.py:178: the caller takes self.lock
AddUrlsAcquire(t) ==
    /\ t_pc[t] = "au_lock"
    /\ UqLockFree(uq_lock)
    /\ uq_lock' = t
    /\ t_pc' = [t_pc EXCEPT ![t] = "au_test"]
    /\ UNCHANGED <<uq_queue, uq_processed, uq_puts, t_urls, t_depth, t_i, t_added>>
    /\ UNCHANGED nonUqVars

\* performance_optimizer.py:179-180: the next url of the loop is tested
\* against processed_urls; a known url is passed over
AddUrlsTest(t) ==
    /\ t_pc[t] = "au_test"
    /\ t_i[t] <= Len(t_urls[t])
    /\ IF t_urls[t][t_i[t]] \notin uq_processed
       THEN /\ t_pc' = [t_pc EXCEPT ![t] = "au_put"]
            /\ UNCHANGED t_i
       ELSE /\ t_i' = [t_i EXCEPT ![t] = @ + 1]
            /\ UNCHANGED t_pc
    /\ UNCHANGED <<uq_queue, uq_processed, uq_lock, uq_puts, t_urls, t_depth, t_added>>
    /\ UNCHANGED nonUqVars

\* performance_optimizer.py:181-183: queue.put, processed_urls.add, added += 1
AddUrlsPut(t) ==
    /\ t_pc[t] = "au_put"
    /\ uq_queue' = Append(uq_queue, <<t_urls[t][t_i[t]], t_depth[t]>>)
    /\ uq_processed' = uq_processed \cup {t_urls[t][t_i[t]]}
    /\ uq_puts' = [uq_puts EXCEPT ![t_urls[t][t_i[t]]] = @ + 1]
    /\ t_added' = [t_added EXCEPT ![t] = @ + 1]
    /\ t_i' = [t_i EXCEPT ![t] = @ + 1]
    /\ t_pc' = [t_pc EXCEPT ![t] = "au_test"]
    /\ UNCHANGED <<uq_lock, t_urls, t_depth>>
    /\ UNCHANGED nonUqVars

\* performance_optimizer.py:184: the loop is over, the lock is released and
\* `added` returned
AddUrlsReturn(t) ==
    /\ t_pc[t] = "au_test"
    /\ t_i[t] > Len(t_urls[t])
    /\ uq_lock' = 0
    /\ t_pc' = [t_pc EXCEPT ![t] = "idle"]
    /\ t_urls' = [t_urls EXCEPT ![t] = <<>>]
    /\ t_depth' = [t_depth EXCEPT ![t] = 0]
    /\ t_i' = [t_i EXCEPT ![t] = 0]
    /\ t_added' = [t_added EXCEPT ![t] = 0]
    /\ UNCHANGED <<uq_queue, uq_processed, uq_puts>>
    /\ UNCHANGED nonUqVars

\* performance_optimizer.py:186-191: get_next_url takes the oldest entry
\* (on an empty queue it returns None and changes nothing)
GetNextUrl ==
    /\ uq_queue # <<>>
    /\ uq_queue' = Tail(uq_queue)
    /\ UNCHANGED <<uq_processed, uq_lock, uq_puts, t_pc, t_urls, t_depth, t_i, t_added>>
    /\ UNCHANGED nonUqVars

UqNext ==
    \/ \E t \in Callers : AddUrlsCall(t)
    \/ \E t \in Callers : AddUrlsAcquire(t)
    \/ \E t \in Callers : AddUrlsTest(t)
    \/ \E t \in Callers : AddUrlsPut(t)
    \/ \E t \in Callers : AddUrlsReturn(t)
    \/ GetNextUrl

(***************************************************************************)
(* The sites crawled by the single-threaded loops: the links the driver    *)
(* shows on each page.                                                     *)
(***************************************************************************)
Sites == {"chain", "loop", "tree"}

SiteLinks(site, u) ==
    CASE site = "chain" -> {u + 1} \cap DUrls
      [] site = "loop"  -> ({u + 1} \cap DUrls) \cup {StartUrl}
      [] site = "tree"  -> {2 * u, 2 * u + 1} \cap DUrls

\* the orders in which Python may iterate over the set S
Orders(S) ==
    {f \in [1..Cardinality(S) -> S] : \A i, j \in 1..Cardinality(S) : i # j => f[i] # f[j]}

(***************************************************************************)
(* EnhancedWebCrawler.crawl_with_flood_fill (enhanced_crawler.py:345-434). *)
(***************************************************************************)
EnhInit ==
    /\ e_phase = "new"
    /\ e_site = "chain"
    /\ e_parser = FALSE
    /\ e_disallow = {}
    /\ e_raises = {}
    /\ e_priority = <<>>
    /\ e_normal = <<>>
    /\ e_flood = <<>>
    /\ e_discovered = {}
    /\ e_crawled = {}
    /\ e_failed = {}
    /\ e_count = 0
    /\ e_loaded = {}
    /\ e_attempts = [u \in DUrls |-> 0]
    /\ e_enq = {}
    /\ e_robots_skipped = {}

\* One behaviour follows one crawl: the crawlers are separate programs over
\* separate state, and each is started on a freshly constructed state.
NoCrawlStarted == e_phase = "new" /\ v_phase = "new" /\ c_phase = "new"

\* enhanced_crawler.py:412  `if depth < 3`
PriorityDepth == 3

\* enhanced_crawler.py:522-532: is_allowed_by_robots(url), for a crawler whose
\* robots_parser is `parser` (not None), answers False on `disallow` and
\* raises on `raises`
IsAllowedAlways(parser, disallow, raises, url) == TRUE
IsAllowedUnlessBroken(parser, disallow, raises, url) ==
    parser /\ url \notin raises /\ url \notin disallow
is_allowed_by_robots(parser, disallow, raises, url) ==
    IF ~parser THEN TRUE
    ELSE IF url \in raises THEN TRUE
    ELSE url \notin disallow

\* enhanced_crawler.py:413,415  `depth + 1`
EChildDepthSame(depth) == depth
EChildDepth(depth) == depth + 1

\* enhanced_crawler.py:372  `depth > self.max_depth`
ETooDeepNever(depth) == FALSE
ETooDeep(depth) == depth > MaxDepth

\* enhanced_crawler.py:349-359: the robots parser is loaded and the initial
\* urls (the base url and what the sitemap sweep found), in the order the
\* set yields them, are queued at depth 0 unless robots.txt disallows them
EStart ==
    /\ NoCrawlStarted
    /\ \E site \in Sites, parser \in BOOLEAN,
          disallow \in {D \in SUBSET DUrls : Cardinality(D) <= 1},
          raises \in {{}, {2}},
          swept \in {S \in SUBSET DUrls : Cardinality(S) <= 1} :
          \E order \in Orders({StartUrl} \cup swept) :
             LET allowed == SelectSeq(order,
                     LAMBDA u : is_allowed_by_robots(parser, disallow, raises, u))
             IN /\ e_site' = site
                /\ e_parser' = parser
                /\ e_disallow' = IF parser THEN disallow ELSE {}
                /\ e_raises' = IF parser THEN raises ELSE {}
                /\ e_normal' = [i \in 1..Len(allowed) |-> <<allowed[i], 0>>]
                /\ e_discovered' = SeqToSet(allowed)
    /\ e_phase' = "crawling"
    /\ UNCHANGED <<e_priority, e_flood, e_crawled, e_failed, e_count, e_loaded,
                   e_attempts, e_enq, e_robots_skipped>>
    /\ UNCHANGED nonEnhVars

\* enhanced_crawler.py:361: the condition of the while loop
ELoopCondition ==
    /\ (e_priority # <<>> \/ e_normal # <<>> \/ e_flood # <<>>)
    /\ e_count < MaxPages

\* enhanced_crawler.py:363-368: the task taken by this iteration
ECurrentNormalFirst ==
    IF e_normal # <<>> THEN Head(e_normal)
    ELSE IF e_priority # <<>> THEN Head(e_priority)
    ELSE Head(e_flood)
ECurrent ==
    IF e_priority # <<>> THEN Head(e_priority)
    ELSE IF e_normal # <<>> THEN Head(e_normal)
    ELSE Head(e_flood)

\* enhanced_crawler.py:363-368: popleft() on the queue the task came from
EPopped ==
    /\ e_priority' = IF e_priority # <<>> THEN Tail(e_priority) ELSE e_priority
    /\ e_normal' = IF e_priority = <<>> /\ e_normal # <<>>
                   THEN Tail(e_normal) ELSE e_normal
    /\ e_flood' = IF e_priority = <<>> /\ e_normal = <<>>
                  THEN Tail(e_flood) ELSE e_flood

\* enhanced_crawler.py:372-373: a crawled or too deep task is passed over
EPopSkip ==
    /\ e_phase = "crawling"
    /\ ELoopCondition
    /\ ECurrent[1] \in e_crawled \/ ETooDeep(ECurrent[2])
    /\ EPopped
    /\ UNCHANGED <<e_phase, e_site, e_parser, e_disallow, e_raises, e_discovered,
                   e_crawled, e_failed, e_count, e_loaded, e_attempts, e_enq, e_robots_skipped>>
    /\ UNCHANGED nonEnhVars

\* enhanced_crawler.py:376-378: a task robots.txt disallows is passed over
EPopDisallowed ==
    /\ e_phase = "crawling"
    /\ ELoopCondition
    /\ ~(ECurrent[1] \in e_crawled \/ ETooDeep(ECurrent[2]))
    /\ ~is_allowed_by_robots(e_parser, e_disallow, e_raises, ECurrent[1])
    /\ EPopped
    /\ e_robots_skipped' = e_robots_skipped \cup {ECurrent[1]}
    /\ UNCHANGED <<e_phase, e_site, e_parser, e_disallow, e_raises, e_discovered,
                   e_crawled, e_failed, e_count, e_loaded, e_attempts, e_enq>>
    /\ UNCHANGED nonEnhVars

\* the task passed the tests of enhanced_crawler.py:372-378
EAdmitted ==
    /\ e_phase = "crawling"
    /\ ELoopCondition
    /\ ~(ECurrent[1] \in e_crawled \/ ETooDeep(ECurrent[2]))
    /\ is_allowed_by_robots(e_parser, e_disallow, e_raises, ECurrent[1])

\* enhanced_crawler.py:382-427: the page loads; flood_fill_discovery returns
\* the links it found (all of the page's links, or fewer when it caught an
\* error of its own, lines 262-263); the new ones are queued one level down
ECrawlOk ==
    /\ EAdmitted
    /\ LET url == ECurrent[1]
           depth == ECurrent[2]
       IN \E found \in SUBSET SiteLinks(e_site, url) :
          \E order \in Orders(found) :
             LET fresh == SelectSeq(order, LAMBDA u : u \notin e_discovered)
                 tasks == [i \in 1..Len(fresh) |-> <<fresh[i], EChildDepth(depth)>>]
             IN /\ e_priority' = IF depth < PriorityDepth
                                 THEN (IF e_priority # <<>> THEN Tail(e_priority)
                                       ELSE e_priority) \o tasks
                                 ELSE IF e_priority # <<>> THEN Tail(e_priority)
                                 ELSE e_priority
                /\ e_normal' = IF e_priority = <<>> /\ e_normal # <<>>
                               THEN Tail(e_normal) ELSE e_normal
                /\ e_flood' = IF depth < PriorityDepth
                              THEN (IF e_priority = <<>> /\ e_normal = <<>>
                                    THEN Tail(e_flood) ELSE e_flood)
                              ELSE (IF e_priority = <<>> /\ e_normal = <<>>
                                    THEN Tail(e_flood) ELSE e_flood) \o tasks
                /\ e_discovered' = e_discovered \cup SeqToSet(fresh)
                /\ e_enq' = e_enq \cup {<<depth, tasks[i][2]>> : i \in 1..Len(tasks)}
                /\ e_crawled' = e_crawled \cup {url}
                /\ e_loaded' = e_loaded \cup {<<url, depth>>}
                /\ e_attempts' = [e_attempts EXCEPT ![url] = @ + 1]
    /\ e_count' = e_count + 1
    /\ UNCHANGED <<e_phase, e_site, e_parser, e_disallow, e_raises, e_failed,
                   e_robots_skipped>>
    /\ UNCHANGED nonEnhVars

\* enhanced_crawler.py:384-403, 429-431: driver.get, the wait or the
\* analysis raises; the url is recorded as failed and the loop goes on
ECrawlRaises ==
    /\ EAdmitted
    /\ EPopped
    /\ e_failed' = e_failed \cup {ECurrent[1]}
    /\ e_loaded' = e_loaded \cup {ECurrent}
    /\ e_attempts' = [e_attempts EXCEPT ![ECurrent[1]] = @ + 1]
    /\ UNCHANGED <<e_phase, e_site, e_parser, e_disallow, e_raises, e_discovered,
                   e_crawled, e_count, e_enq, e_robots_skipped>>
    /\ UNCHANGED nonEnhVars

\* enhanced_crawler.py:361, 433-434: the loop ends and the report is made
EFinish ==
    /\ e_phase = "crawling"
    /\ ~ELoopCondition
    /\ e_phase' = "done"
    /\ UNCHANGED <<e_site, e_parser, e_disallow, e_raises, e_priority, e_normal,
                   e_flood, e_discovered, e_crawled, e_failed, e_count, e_loaded,
                   e_attempts, e_enq, e_robots_skipped>>
    /\ UNCHANGED nonEnhVars

EnhNext ==
    \/ EStart
    \/ EPopSkip
    \/ EPopDisallowed
    \/ ECrawlOk
    \/ ECrawlRaises
    \/ EFinish

(***************************************************************************)
(* comprehensive_crawl_site (views.py:367-688): the main thread and the    *)
(* executor threads that run comprehensive_process_url.                    *)
(***************************************************************************)
\* the sites crawled by the threaded crawler: the link-bearing elements of
\* each page in the order the harvesting code visits them (a link inside a
\* <nav> is found by the href loop, views.py:482, and again by the
\* navigation selectors, views.py:499)
VSites == {"chain", "nav", "star"}

PageLinks(site, u) ==
    CASE site = "chain" -> IF u < NumUrls THEN <<u + 1>> ELSE <<>>
      [] site = "nav"   -> <<(u % NumUrls) + 1, (u % NumUrls) + 1>>
      [] site = "star"  -> IF u = StartUrl
                           THEN [i \in 1..(NumUrls - 1) |-> i + 1]
                           ELSE <<StartUrl>>

FreeSlot == [pc |-> "free", url |-> 0, depth |-> 0, links |-> <<>>, new_urls |-> <<>>]

ViewsInit ==
    /\ v_phase = "new"
    /\ v_site = "chain"
    /\ v_disallow = {}
    /\ v_queue = <<>>
    /\ v_visited = {}
    /\ v_lock = 0
    /\ v_count = 0
    /\ v_slot = [s \in Slots |-> FreeSlot]
    /\ v_loaded = {}
    /\ v_loads = [u \in Urls |-> 0]
    /\ v_enq = {}

\* views.py:488 (and 507, 533, 560, 570, 585, 595, 619)  `depth + 1`
VChildDepthSame(depth) == depth
VChildDepth(depth) == depth + 1

\* views.py:415  `depth > max_depth`
VTooDeepNever(depth) == FALSE
VTooDeep(depth) == depth > max_depth

\* views.py:386-398: phase 1.  The urls of the sitemap sweep, in the order
\* the set yields them, are queued at depth 0, then the start url is queued.
\* `disallow` is what the site's robots.txt disallows; the function never
\* calls get_robot_parser (views.py:65-75) and reads no robots rule.
VStart ==
    /\ NoCrawlStarted
    /\ \E site \in VSites, swept \in {S \in SUBSET Urls : Cardinality(S) <= 2},
          disallow \in {D \in SUBSET (Urls \ {StartUrl}) : Cardinality(D) <= 1} :
          \E order \in Orders(swept) :
             /\ v_site' = site
             /\ v_disallow' = disallow
             /\ v_queue' = [i \in 1..Len(order) |-> <<order[i], 0>>]
                              \o <<<<StartUrl, 0>>>>
    /\ v_phase' = "loop"
    /\ UNCHANGED <<v_visited, v_lock, v_count, v_slot, v_loaded, v_loads, v_enq>>
    /\ UNCHANGED nonViewsVars

\* views.py:650-667: the loop condition holds; a batch of
\* min(max_workers, qsize) tasks is taken and submitted to the executor
VTakeBatch ==
    /\ v_phase = "loop"
    /\ v_queue # <<>>
    /\ v_count < max_urls
    /\ LET n == IF Len(v_queue) < max_workers THEN Len(v_queue) ELSE max_workers
       IN /\ v_slot' = [s \in Slots |->
                          IF s <= n
                          THEN [pc |-> "start", url |-> v_queue[s][1],
                                depth |-> v_queue[s][2], links |-> <<>>,
                                new_urls |-> <<>>]
                          ELSE FreeSlot]
          /\ v_queue' = SubSeq(v_queue, n + 1, Len(v_queue))
    /\ v_phase' = "batch"
    /\ UNCHANGED <<v_site, v_disallow, v_visited, v_lock, v_count, v_loaded, v_loads, v_enq>>
    /\ UNCHANGED nonViewsVars

\* views.py:414-416: under visited_lock, a visited or too deep task returns []
VVisitedSkip(s) ==
    /\ v_slot[s].pc = "start"
    /\ LockFree(v_lock)
    /\ v_slot[s].url \in v_visited \/ VTooDeep(v_slot[s].depth)
    /\ v_slot' = [v_slot EXCEPT ![s].pc = "finished"]
    /\ UNCHANGED <<v_phase, v_site, v_disallow, v_queue, v_visited, v_lock, v_count,
                   v_loaded, v_loads, v_enq>>
    /\ UNCHANGED nonViewsVars

\* views.py:414-415: under visited_lock, the task is neither visited nor too
\* deep
VVisitedTest(s) ==
    /\ v_slot[s].pc = "start"
    /\ LockFree(v_lock)
    /\ ~(v_slot[s].url \in v_visited \/ VTooDeep(v_slot[s].depth))
    /\ v_lock' = s
    /\ v_slot' = [v_slot EXCEPT ![s].pc = "mark"]
    /\ UNCHANGED <<v_phase, v_site, v_disallow, v_queue, v_visited, v_count, v_loaded,
                   v_loads, v_enq>>
    /\ UNCHANGED nonViewsVars

\* views.py:417: visited.add(url); the lock is released
VVisitedAdd(s) ==
    /\ v_slot[s].pc = "mark"
    /\ v_visited' = v_visited \cup {v_slot[s].url}
    /\ v_lock' = 0
    /\ v_slot' = [v_slot EXCEPT ![s].pc = "load"]
    /\ UNCHANGED <<v_phase, v_site, v_disallow, v_queue, v_count, v_loaded, v_loads, v_enq>>
    /\ UNCHANGED nonViewsVars

\* views.py:431-475: a driver is created, the page loads and its content is
\* stored; a page without links returns at once (views.py:629)
VLoadOk(s) ==
    /\ v_slot[s].pc = "load"
    /\ v_loaded' = v_loaded \cup {<<v_slot[s].url, v_slot[s].depth>>}
    /\ v_loads' = [v_loads EXCEPT ![v_slot[s].url] = @ + 1]
    /\ v_slot' = [v_slot EXCEPT
                    ![s].links = PageLinks(v_site, v_slot[s].url),
                    ![s].pc = IF PageLinks(v_site, v_slot[s].url) = <<>>
                              THEN "finished" ELSE "harvest"]
    /\ UNCHANGED <<v_phase, v_site, v_disallow, v_queue, v_visited, v_lock, v_count, v_enq>>
    /\ UNCHANGED nonViewsVars

\* views.py:435, 457-460, 631-645: driver.get raises (timeout, WebDriver
\* error, anything else) or the page is too large: the worker returns [],
\* the driver is quit
VLoadFails(s) ==
    /\ v_slot[s].pc = "load"
    /\ v_loaded' = v_loaded \cup {<<v_slot[s].url, v_slot[s].depth>>}
    /\ v_loads' = [v_loads EXCEPT ![v_slot[s].url] = @ + 1]
    /\ v_slot' = [v_slot EXCEPT ![s].pc = "finished"]
    /\ UNCHANGED <<v_phase, v_site, v_disallow, v_queue, v_visited, v_lock, v_count, v_enq>>
    /\ UNCHANGED nonViewsVars

\* views.py:482-488 (and the other harvesting loops): under visited_lock, a
\* link that is not in visited is appended to new_urls one level down; after
\* the last link new_urls is returned (views.py:629)
VHarvestLink(s) ==
    /\ v_slot[s].pc = "harvest"
    /\ LockFree(v_lock)
    /\ LET link == Head(v_slot[s].links)
           rest == Tail(v_slot[s].links)
           task == <<link, VChildDepth(v_slot[s].depth)>>
       IN /\ v_slot' = [v_slot EXCEPT
                          ![s].links = rest,
                          ![s].new_urls = IF link \notin v_visited
                                          THEN Append(@, task) ELSE @,
                          ![s].pc = IF rest = <<>> THEN "finished" ELSE "harvest"]
          /\ v_enq' = IF link \notin v_visited
                      THEN v_enq \cup {<<v_slot[s].depth, task[2]>>}
                      ELSE v_enq
    /\ UNCHANGED <<v_phase, v_site, v_disallow, v_queue, v_visited, v_lock, v_count,
                   v_loaded, v_loads>>
    /\ UNCHANGED nonViewsVars

\* url_queue after the main thread has put the tasks of `new`, each only
\* while processed_count + qsize < max_urls (views.py:677-679)
RECURSIVE PutNewUrls(_, _, _)
PutNewUrls(queue, new, count) ==
    IF new = <<>> THEN queue
    ELSE PutNewUrls(IF count + Len(queue) < max_urls
                    THEN Append(queue, Head(new)) ELSE queue,
                    Tail(new), count)

\* views.py:669-679: as_completed yields a finished future; the main thread
\* counts it and queues its new urls (all of one depth, so the sort by depth
\* at views.py:676 keeps their order)
VConsume(s) ==
    /\ v_phase = "batch"
    /\ v_slot[s].pc = "finished"
    /\ v_count' = v_count + 1
    /\ v_queue' = PutNewUrls(v_queue, v_slot[s].new_urls, v_count + 1)
    /\ v_slot' = [v_slot EXCEPT ![s] = FreeSlot]
    /\ UNCHANGED <<v_phase, v_site, v_disallow, v_visited, v_lock, v_loaded, v_loads, v_enq>>
    /\ UNCHANGED nonViewsVars

\* views.py:666, 685-686: every future of the batch is done; the executor is
\* left and the loop goes round
VBatchDone ==
    /\ v_phase = "batch"
    /\ \A s \in Slots : v_slot[s].pc = "free"
    /\ v_phase' = "loop"
    /\ UNCHANGED <<v_site, v_disallow, v_queue, v_visited, v_lock, v_count, v_slot,
                   v_loaded, v_loads, v_enq>>
    /\ UNCHANGED nonViewsVars

\* views.py:650, 688: the loop condition fails and the crawl is over
VFinish ==
    /\ v_phase = "loop"
    /\ ~(v_queue # <<>> /\ v_count < max_urls)
    /\ v_phase' = "done"
    /\ UNCHANGED <<v_site, v_disallow, v_queue, v_visited, v_lock, v_count, v_slot,
                   v_loaded, v_loads, v_enq>>
    /\ UNCHANGED nonViewsVars

ViewsNext ==
    \/ VStart
    \/ VTakeBatch
    \/ \E s \in Slots : VVisitedSkip(s)
    \/ \E s \in Slots : VVisitedTest(s)
    \/ \E s \in Slots : VVisitedAdd(s)
    \/ \E s \in Slots : VLoadOk(s)
    \/ \E s \in Slots : VLoadFails(s)
    \/ \E s \in Slots : VHarvestLink(s)
    \/ \E s \in Slots : VConsume(s)
    \/ VBatchDone
    \/ VFinish

(***************************************************************************)
(* OptimizedWebCrawler.crawl_site (optimized_crawler.py:39-176) with       *)
(* ThreadingManager.process_urls_concurrent (threading_manager.py:23-56).  *)
(* A task carries, beside the (url, depth) pair of the code, the number of *)
(* link hops by which it was reached from the seed (history).              *)
(***************************************************************************)
\* An href of a page: u in DUrls is the url itself, u + NumDeepUrls is the
\* same url with a fragment ("#top"), 0 is a url of another domain.
Fragment(u) == u + NumDeepUrls

\* the a[href] values of page u, in document order
PageHrefs(site, u) ==
    CASE site = "chain" -> IF u < NumDeepUrls THEN <<0, u + 1>> ELSE <<0>>
      [] site = "loop"  -> IF u < NumDeepUrls
                           THEN <<u + 1, Fragment(StartUrl)>>
                           ELSE <<Fragment(StartUrl)>>
      [] site = "tree"  -> SelectSeq(<<2 * u, 2 * u + 1>>, LAMBDA h : h \in DUrls)

\* async_requests.py:104-117: normalize_url(url) without base_url drops the
\* fragment (the hrefs of a rendered page are absolute and carry a scheme)
normalize_url(h) == IF h > NumDeepUrls THEN h - NumDeepUrls ELSE h

\* async_requests.py:119-125: extract_domain(url)
extract_domain(h) == IF h = 0 THEN "other" ELSE "site"

\* optimized_crawler.py:209-221: _extract_links keeps the hrefs of the domain
extract_links(site, u) ==
    SelectSeq(PageHrefs(site, u), LAMBDA h : extract_domain(h) = "site")

\* optimized_crawler.py:65  `min(50, len(urls_to_process))`
BatchSize == 50

CrawlInit ==
    /\ c_phase = "new"
    /\ c_site = "chain"
    /\ c_max_depth = 1
    /\ c_max_pages = 1
    /\ c_todo = <<>>
    /\ c_pending = <<>>
    /\ c_held = {}
    /\ c_results = <<>>
    /\ c_processed = {}
    /\ c_visited = {}
    /\ c_errors = 0
    /\ c_rendered = {}
    /\ c_enq = {}
    /\ c_submits = [u \in DUrls |-> 0]

\* optimized_crawler.py:139,149  `'depth': 0`: the depth of every result
ResultDepth(task) == 0

\* optimized_crawler.py:164  `if current_depth >= max_depth: return []`
DepthExhausted(current_depth, maxd) == current_depth >= maxd

\* optimized_crawler.py:162-176: _discover_new_urls: <<the new urls, the
\* _visited_urls set afterwards>>
RECURSIVE DiscoverLoop(_, _, _)
DiscoverLoop(links, visited, new_urls) ==
    IF links = <<>> THEN <<new_urls, visited>>
    ELSE LET normalized == normalize_url(Head(links))
         IN IF extract_domain(normalized) = "site" /\ normalized \notin visited
            THEN DiscoverLoop(Tail(links), visited \cup {normalized},
                              Append(new_urls, normalized))
            ELSE DiscoverLoop(Tail(links), visited, new_urls)

discover_new_urls(links, visited, current_depth, maxd) ==
    IF DepthExhausted(current_depth, maxd) THEN <<<<>>, visited>>
    ELSE DiscoverLoop(links, visited, <<>>)

\* optimized_crawler.py:39-62: crawl_site(start_url, max_pages, max_depth)
CStart ==
    /\ NoCrawlStarted
    /\ \E site \in Sites, maxd \in 1..MaxDepth, maxp \in {2, MaxPages} :
          /\ c_site' = site
          /\ c_max_depth' = maxd
          /\ c_max_pages' = maxp
    /\ c_todo' = <<[url |-> StartUrl, depth |-> 0, hops |-> 0]>>
    /\ c_phase' = "loop"
    /\ UNCHANGED <<c_pending, c_held, c_results, c_processed, c_visited, c_errors,
                   c_rendered, c_enq>>
    /\ UNCHANGED c_submits
    /\ UNCHANGED nonCrawlVars

\* optimized_crawler.py:64-72, threading_manager.py:28-42: the while test
\* holds, a batch is cut off the list and every url of it is submitted
CTakeBatch ==
    /\ c_phase = "loop"
    /\ c_todo # <<>>
    /\ Cardinality(c_processed) < c_max_pages
    /\ LET n == IF Len(c_todo) < BatchSize THEN Len(c_todo) ELSE BatchSize
       IN /\ c_pending' = SubSeq(c_todo, 1, n)
          /\ c_todo' = SubSeq(c_todo, n + 1, Len(c_todo))
    /\ c_held' = {}
    /\ c_submits' = [u \in DUrls |->
          c_submits[u] + Cardinality({k \in 1..Len(c_pending') : c_pending'[k].url = u})]
    /\ c_results' = <<>>
    /\ c_phase' = "batch"
    /\ UNCHANGED <<c_site, c_max_depth, c_max_pages, c_processed, c_visited,
                   c_errors, c_rendered, c_enq>>
    /\ UNCHANGED nonCrawlVars

RemoveAt(seq, i) == SubSeq(seq, 1, i - 1) \o SubSeq(seq, i + 1, Len(seq))

\* optimized_crawler.py:121-150, threading_manager.py:44-50: a worker got a
\* driver, the page loaded; its result joins batch_results as it completes
CPageOk(i) ==
    /\ c_phase = "batch"
    /\ i \in 1..Len(c_pending)
    /\ c_pending[i].url \in c_held
    /\ c_held' = c_held \ {c_pending[i].url}
    /\ LET task == c_pending[i]
       IN /\ c_results' = Append(c_results,
                 [url |-> task.url, depth |-> ResultDepth(task),
                  links |-> extract_links(c_site, task.url),
                  queued_depth |-> task.depth, hops |-> task.hops])
          /\ c_rendered' = c_rendered \cup {<<task.url, task.hops>>}
    /\ c_pending' = RemoveAt(c_pending, i)
    /\ UNCHANGED <<c_phase, c_site, c_max_depth, c_max_pages, c_todo,
                   c_processed, c_visited, c_errors>>
    /\ UNCHANGED <<c_enq>>
    /\ UNCHANGED c_submits
    /\ UNCHANGED nonCrawlVars

\* optimized_crawler.py:127, 152-160: driver.get raises; the error is
\* counted, the worker returns None, which _process_batch drops (line 47)
CPageRaisesEscapes(i) ==
    /\ c_phase = "batch"
    /\ i \in 1..Len(c_pending)
    /\ c_pending[i].url \in c_held
    /\ c_held' = c_held \ {c_pending[i].url}
    /\ c_rendered' = c_rendered \cup {<<c_pending[i].url, c_pending[i].hops>>}
    /\ c_errors' = c_errors + 1
    /\ c_phase' = "done"
    /\ UNCHANGED <<c_site, c_max_depth, c_max_pages, c_todo, c_pending,
                   c_results, c_processed, c_visited, c_enq>>
    /\ UNCHANGED c_submits
    /\ UNCHANGED nonCrawlVars

CPageRaises(i) ==
    /\ c_phase = "batch"
    /\ i \in 1..Len(c_pending)
    /\ c_pending[i].url \in c_held
    /\ c_held' = c_held \ {c_pending[i].url}
    /\ c_rendered' = c_rendered \cup {<<c_pending[i].url, c_pending[i].hops>>}
    /\ c_errors' = c_errors + 1
    /\ c_pending' = RemoveAt(c_pending, i)
    /\ UNCHANGED <<c_phase, c_site, c_max_depth, c_max_pages, c_todo,
                   c_results, c_processed, c_visited, c_enq>>
    /\ UNCHANGED c_submits
    /\ UNCHANGED nonCrawlVars

\* optimized_crawler.py:121, driver_pool.py:45-55: a worker of the batch gets
\* a driver: an idle one, or a new one while the pool has made fewer than
\* max_drivers (every driver not held is idle or not yet made)
CPageGetDriver(i) ==
    /\ c_phase = "batch"
    /\ i \in 1..Len(c_pending)
    /\ c_pending[i].url \notin c_held
    /\ WpHasCapacity(Cardinality(c_held))
    /\ c_held' = c_held \cup {c_pending[i].url}
    /\ UNCHANGED <<c_phase, c_site, c_max_depth, c_max_pages, c_todo,
                   c_pending, c_results, c_processed, c_visited, c_errors,
                   c_rendered, c_enq>>
    /\ UNCHANGED c_submits
    /\ UNCHANGED nonCrawlVars

\* optimized_crawler.py:121-123, driver_pool.py:57: every driver of the pool
\* is held by another worker: get_driver returns None and so does the
\* worker, without loading the page
CPageNoDriver(i) ==
    /\ c_phase = "batch"
    /\ i \in 1..Len(c_pending)
    /\ c_pending[i].url \notin c_held
    /\ ~WpHasCapacity(Cardinality(c_held))
    /\ c_pending' = RemoveAt(c_pending, i)
    /\ UNCHANGED <<c_phase, c_site, c_max_depth, c_max_pages, c_todo, c_held,
                   c_results, c_processed, c_visited, c_errors, c_rendered,
                   c_enq>>
    /\ UNCHANGED c_submits
    /\ UNCHANGED nonCrawlVars

\* optimized_crawler.py:75-101: one round of `for result in batch_results`
CHandleResultKeepsProcessed ==
    /\ c_phase = "batch"
    /\ c_pending = <<>>
    /\ c_results # <<>>
    /\ LET result == Head(c_results)
           found == discover_new_urls(result.links, c_visited,
                                      result.depth + 1, c_max_depth)
           processed == c_processed \cup {result.url}
           fresh == found[1]
       IN /\ c_processed' = processed
          /\ c_visited' = found[2]
          /\ c_todo' = c_todo \o
                 [k \in 1..Len(fresh) |->
                     [url |-> fresh[k], depth |-> result.depth + 1,
                      hops |-> result.hops + 1]]
          /\ c_enq' = IF fresh = <<>> THEN c_enq
                      ELSE c_enq \cup {<<result.queued_depth, result.depth + 1>>}
    /\ c_results' = Tail(c_results)
    /\ UNCHANGED <<c_phase, c_site, c_max_depth, c_max_pages, c_pending, c_held,
                   c_errors, c_rendered>>
    /\ UNCHANGED c_submits
    /\ UNCHANGED nonCrawlVars

\* optimized_crawler.py:75-101: one round of `for result in batch_results`
CHandleResult ==
    /\ c_phase = "batch"
    /\ c_pending = <<>>
    /\ c_results # <<>>
    /\ LET result == Head(c_results)
           found == discover_new_urls(result.links, c_visited,
                                      result.depth + 1, c_max_depth)
           processed == c_processed \cup {result.url}
           fresh == SelectSeq(found[1], LAMBDA u : u \notin processed)
       IN /\ c_processed' = processed
          /\ c_visited' = found[2]
          /\ c_todo' = c_todo \o
                 [k \in 1..Len(fresh) |->
                     [url |-> fresh[k], depth |-> result.depth + 1,
                      hops |-> result.hops + 1]]
          /\ c_enq' = IF fresh = <<>> THEN c_enq
                      ELSE c_enq \cup {<<result.queued_depth, result.depth + 1>>}
    /\ c_results' = Tail(c_results)
    /\ UNCHANGED <<c_phase, c_site, c_max_depth, c_max_pages, c_pending, c_held,
                   c_errors, c_rendered>>
    /\ UNCHANGED c_submits
    /\ UNCHANGED nonCrawlVars

\* optimized_crawler.py:103-105: the batch is dealt with; back to the while
CBatchEnd ==
    /\ c_phase = "batch"
    /\ c_pending = <<>>
    /\ c_results = <<>>
    /\ c_phase' = "loop"
    /\ UNCHANGED <<c_site, c_max_depth, c_max_pages, c_todo, c_pending, c_held,
                   c_results, c_processed, c_visited, c_errors, c_rendered,
                   c_enq>>
    /\ UNCHANGED c_submits
    /\ UNCHANGED nonCrawlVars

\* optimized_crawler.py:64 with the page limit no longer part of the while
\* test: the loop is only left when urls_to_process is empty
CFinishWhenEmpty ==
    /\ c_phase = "loop"
    /\ c_todo = <<>>
    /\ c_phase' = "done"
    /\ UNCHANGED <<c_site, c_max_depth, c_max_pages, c_todo, c_pending, c_held,
                   c_results, c_processed, c_visited, c_errors, c_rendered,
                   c_enq>>
    /\ UNCHANGED c_submits
    /\ UNCHANGED nonCrawlVars

\* optimized_crawler.py:64, 107-115: the while test fails; crawl_data is
\* returned
CFinish ==
    /\ c_phase = "loop"
    /\ ~(c_todo # <<>> /\ Cardinality(c_processed) < c_max_pages)
    /\ c_phase' = "done"
    /\ UNCHANGED <<c_site, c_max_depth, c_max_pages, c_todo, c_pending, c_held,
                   c_results, c_processed, c_visited, c_errors, c_rendered,
                   c_enq>>
    /\ UNCHANGED c_submits
    /\ UNCHANGED nonCrawlVars

OptCrawlNext ==
    \/ CStart
    \/ CTakeBatch
    \/ \E i \in 1..NumDeepUrls : CPageOk(i)
    \/ \E i \in 1..NumDeepUrls : CPageRaises(i)
    \/ \E i \in 1..NumDeepUrls : CPageGetDriver(i)
    \/ \E i \in 1..NumDeepUrls : CPageNoDriver(i)
    \/ CHandleResult
    \/ CBatchEnd
    \/ CFinish

(***************************************************************************)
(* RateLimiter (async_requests.py:127-154).  Time is counted in ticks of   *)
(* per_second / (rate_limit * TokenUnit) seconds, tokens in TokenUnit-ths: *)
(* `time_passed * (rate_limit / per_second)` is then the number of ticks   *)
(* passed, and `(1 - tokens) / (rate_limit / per_second)` is               *)
(* TokenUnit - tokens ticks.                                               *)
(***************************************************************************)
Acquirers == 1..NumAcquirers
Ticks == 0..MaxTime

\* async_requests.py:130-135: __init__: the bucket starts full
RateInit ==
    /\ rl_tokens = RateLimit * TokenUnit
    /\ rl_last = 0
    /\ rl_lock = 0
    /\ rl_now = 0
    /\ rl_pc = [a \in Acquirers |-> "idle"]
    /\ rl_wake = [a \in Acquirers |-> 0]
    /\ rl_granted = [t \in Ticks |-> 0]

\* async_requests.py:140-145: the refill, `min(rate_limit, tokens + passed * rate)`
Refilled(tokens, time_passed) ==
    IF tokens + time_passed < RateLimit * TokenUnit
    THEN tokens + time_passed
    ELSE RateLimit * TokenUnit

\* async_requests.py:152  `(1 - self._tokens) / (self.rate_limit / self.per_second)`
SleepTicks(tokens) == TokenUnit - tokens

\* time.time() moves on
RlClock ==
    /\ rl_now < MaxTime
    /\ rl_now' = rl_now + 1
    /\ UNCHANGED <<rl_tokens, rl_last, rl_lock, rl_pc, rl_wake, rl_granted>>
    /\ UNCHANGED nonRateVars

\* async_requests.py:139-150: acquire() takes the lock, refills, finds a
\* token, takes it and returns (no await in between: one step)
RlAcquireGrant(a) ==
    /\ rl_pc[a] = "idle"
    /\ rl_lock = 0
    /\ LET tokens == Refilled(rl_tokens, rl_now - rl_last)
       IN /\ tokens >= TokenUnit
          /\ rl_tokens' = tokens - TokenUnit
    /\ rl_last' = rl_now
    /\ rl_granted' = [rl_granted EXCEPT ![rl_now] = @ + 1]
    /\ UNCHANGED <<rl_lock, rl_now, rl_pc, rl_wake>>
    /\ UNCHANGED nonRateVars

\* async_requests.py:139-147, 152: acquire() takes the lock, refills, finds
\* less than one token and goes to sleep inside `async with self._lock`
RlAcquireSleep(a) ==
    /\ rl_pc[a] = "idle"
    /\ rl_lock = 0
    /\ LET tokens == Refilled(rl_tokens, rl_now - rl_last)
       IN /\ tokens < TokenUnit
          /\ rl_tokens' = tokens
          /\ rl_wake' = [rl_wake EXCEPT ![a] = rl_now + SleepTicks(tokens)]
    /\ rl_last' = rl_now
    /\ rl_lock' = a
    /\ rl_pc' = [rl_pc EXCEPT ![a] = "sleeping"]
    /\ UNCHANGED <<rl_now, rl_granted>>
    /\ UNCHANGED nonRateVars

\* async_requests.py:152-154: the sleep is over (at its due time or later);
\* the token is taken, acquire() returns and the lock is released
RlWake(a) ==
    /\ rl_pc[a] = "sleeping"
    /\ rl_now >= rl_wake[a]
    /\ rl_tokens' = rl_tokens - TokenUnit
    /\ rl_granted' = [rl_granted EXCEPT ![rl_now] = @ + 1]
    /\ rl_lock' = 0
    /\ rl_pc' = [rl_pc EXCEPT ![a] = "idle"]
    /\ UNCHANGED <<rl_last, rl_now, rl_wake>>
    /\ UNCHANGED nonRateVars

RateNext ==
    \/ RlClock
    \/ \E a \in Acquirers : RlAcquireGrant(a)
    \/ \E a \in Acquirers : RlAcquireSleep(a)
    \/ \E a \in Acquirers : RlWake(a)

(***************************************************************************)
(* OptimizedWebScraper.crawl and its crawl_worker coroutines               *)
(* (optimized_scraper.py:274-347).  The coroutines run on one event loop:  *)
(* what lies between two awaits is one step.                               *)
(***************************************************************************)
Scrapers == 1..NumScrapers

\* scraper_config.py:16  `retry_attempts: int = 3`
retry_attempts == 3

\* the retry_count of a task: no statement of the program changes it after
\* the task is made (optimized_scraper.py:331, 335)
retry_count(url) == 0

\* optimized_scraper.py:156-165: __init__
ScrapeInit ==
    /\ s_phase = "new"
    /\ s_queue = <<>>
    /\ s_visited = {}
    /\ s_results = {}
    /\ s_pc = [w \in Scrapers |-> "get"]
    /\ s_task = [w \in Scrapers |-> 0]
    /\ s_taken = [u \in Urls |-> 0]

\* optimized_scraper.py:322-342: crawl(start_url) queues the discovered urls
\* and the start url, then starts the workers
SCrawl ==
    /\ s_phase = "new"
    /\ \E swept \in SUBSET Urls :
          \E order \in Orders(swept) : s_queue' = Append(order, StartUrl)
    /\ s_phase' = "running"
    /\ UNCHANGED <<s_visited, s_results, s_pc, s_task, s_taken>>
    /\ UNCHANGED nonScrapeVars

\* optimized_scraper.py:305-310: url_queue.get() delivers a task (the order
\* of the entries rests on the Priority values and on the comparison of
\* tasks: any queued task may be the one); a task with too many retries is
\* passed over
SGet(w) ==
    /\ s_phase = "running"
    /\ s_pc[w] = "get"
    /\ \E i \in 1..Len(s_queue) :
          /\ s_queue' = SubSeq(s_queue, 1, i - 1)
                           \o SubSeq(s_queue, i + 1, Len(s_queue))
          /\ s_taken' = [s_taken EXCEPT ![s_queue[i]] = @ + 1]
          /\ IF retry_count(s_queue[i]) > retry_attempts
             THEN UNCHANGED <<s_pc, s_task>>
             ELSE /\ s_pc' = [s_pc EXCEPT ![w] = "process"]
                  /\ s_task' = [s_task EXCEPT ![w] = s_queue[i]]
    /\ UNCHANGED <<s_phase, s_visited, s_results>>
    /\ UNCHANGED nonScrapeVars

\* optimized_scraper.py:305-307, 317-318: the queue stayed empty for the
\* whole timeout of wait_for: TimeoutError, the worker leaves its loop
SGetTimeout(w) ==
    /\ s_phase = "running"
    /\ s_pc[w] = "get"
    /\ s_queue = <<>>
    /\ s_pc' = [s_pc EXCEPT ![w] = "exited"]
    /\ UNCHANGED <<s_phase, s_queue, s_visited, s_results, s_task, s_taken>>
    /\ UNCHANGED nonScrapeVars

\* optimized_scraper.py:276-277, 312-315: the url was visited: process_url
\* returns [] and the worker goes round its loop
SProcessSeen(w) ==
    /\ s_pc[w] = "process"
    /\ s_task[w] \in s_visited
    /\ s_pc' = [s_pc EXCEPT ![w] = "get"]
    /\ s_task' = [s_task EXCEPT ![w] = 0]
    /\ UNCHANGED <<s_phase, s_queue, s_visited, s_results, s_taken>>
    /\ UNCHANGED nonScrapeVars

\* optimized_scraper.py:276-285: the url is new: it is marked visited, a
\* driver is taken and the extraction is handed to the executor
SProcessBegin(w) ==
    /\ s_pc[w] = "process"
    /\ s_task[w] \notin s_visited
    /\ s_visited' = s_visited \cup {s_task[w]}
    /\ s_pc' = [s_pc EXCEPT ![w] = "render"]
    /\ UNCHANGED <<s_phase, s_queue, s_results, s_task, s_taken>>
    /\ UNCHANGED nonScrapeVars

\* optimized_scraper.py:283-298, 312-315: the extraction is over; process_url
\* returns its (always empty) list of new tasks, nothing is queued
SRenderOk(w) ==
    /\ s_pc[w] = "render"
    /\ s_pc' = [s_pc EXCEPT ![w] = "get"]
    /\ s_task' = [s_task EXCEPT ![w] = 0]
    /\ s_results' = s_results \cup {s_task[w]}
    /\ UNCHANGED <<s_phase, s_queue, s_visited, s_taken>>
    /\ UNCHANGED nonScrapeVars

\* optimized_scraper.py:281-298, 319-320: get_driver or the extraction
\* raises; crawl_worker logs the error and goes round its loop
SRenderRaises(w) ==
    /\ s_pc[w] = "render"
    /\ s_pc' = [s_pc EXCEPT ![w] = "get"]
    /\ s_task' = [s_task EXCEPT ![w] = 0]
    /\ UNCHANGED <<s_phase, s_queue, s_visited, s_results, s_taken>>
    /\ UNCHANGED nonScrapeVars

\* optimized_scraper.py:344-347: gather returns when every worker has left
SGathered ==
    /\ s_phase = "running"
    /\ \A w \in Scrapers : s_pc[w] = "exited"
    /\ s_phase' = "done"
    /\ UNCHANGED <<s_queue, s_visited, s_results, s_pc, s_task, s_taken>>
    /\ UNCHANGED nonScrapeVars

ScrapeNext ==
    \/ SCrawl
    \/ \E w \in Scrapers : SGet(w)
    \/ \E w \in Scrapers : SGetTimeout(w)
    \/ \E w \in Scrapers : SProcessSeen(w)
    \/ \E w \in Scrapers : SProcessBegin(w)
    \/ \E w \in Scrapers : SRenderOk(w)
    \/ \E w \in Scrapers : SRenderRaises(w)
    \/ SGathered

(***************************************************************************)
(* OptimizedScraper.scrape_multiple_urls (optimized_views.py:64-106): the  *)
(* calls follow one another in one process and all work on the one         *)
(* url_manager made at import time (performance_optimizer.py:235).         *)
(***************************************************************************)
\* optimized_views.py:74  `while processed_count < 100`
ProcessLimit == 100
\* optimized_views.py:76  `for _ in range(10)`
RunBatchSize == 10
\* optimized_views.py:55  `'links': links[:5]`
LinkLimit == 5

RunsInit ==
    /\ m_run = 0
    /\ m_phase = "idle"
    /\ m_site = "chain"
    /\ m_max_depth = 0
    /\ m_seed = 0
    /\ m_batch = <<>>
    /\ m_size = 0
    /\ m_count = 0
    /\ m_results = {}
    /\ m_admitted = {}
    /\ m_before = {}

\* performance_optimizer.py:175-184: add_urls(urls, depth) run by one thread
\* alone: <<queue, processed_urls, the urls put>> afterwards
RECURSIVE AddUrls(_, _, _, _, _)
AddUrls(queue, processed, put, urls, depth) ==
    IF urls = <<>> THEN <<queue, processed, put>>
    ELSE IF Head(urls) \notin processed
         THEN AddUrls(Append(queue, <<Head(urls), depth>>),
                      processed \cup {Head(urls)}, put \cup {Head(urls)},
                      Tail(urls), depth)
         ELSE AddUrls(queue, processed, put, Tail(urls), depth)

\* how often each url was put, after the urls of `put` were put once more
PutsAfter(put) == [u \in Urls |-> uq_puts[u] + IF u \in put THEN 1 ELSE 0]

\* optimized_views.py:64-72: scrape_multiple_urls(urls, max_depth) is called
\* and adds its initial urls
MRunStart ==
    /\ m_phase = "idle"
    /\ m_run < NumRuns
    /\ \E seed \in Urls, site \in VSites, maxd \in 0..max_depth :
          LET added == AddUrls(uq_queue, uq_processed, {}, <<seed>>, 0)
          IN /\ m_seed' = seed
             /\ m_site' = site
             /\ m_max_depth' = maxd
             /\ uq_queue' = added[1]
             /\ uq_processed' = added[2]
             /\ uq_puts' = PutsAfter(added[3])
             /\ m_admitted' = added[3]
    /\ m_before' = m_before \cup m_admitted
    /\ m_run' = m_run + 1
    /\ m_phase' = "loop"
    /\ m_count' = 0
    /\ m_results' = {}
    /\ UNCHANGED <<m_batch, m_size>>
    /\ UNCHANGED nonRunsVars

\* optimized_views.py:74-86: the limit is not reached; up to 10 tasks are
\* taken with get_next_url and submitted
MTakeBatch ==
    /\ m_phase = "loop"
    /\ m_count < ProcessLimit
    /\ uq_queue # <<>>
    /\ LET n == IF Len(uq_queue) < RunBatchSize THEN Len(uq_queue)
                ELSE RunBatchSize
       IN /\ m_batch' = SubSeq(uq_queue, 1, n)
          /\ m_size' = n
          /\ uq_queue' = SubSeq(uq_queue, n + 1, Len(uq_queue))
    /\ m_phase' = "batch"
    /\ UNCHANGED <<m_run, m_site, m_max_depth, m_seed, m_count, m_results,
                   m_admitted, m_before, uq_processed, uq_puts>>
    /\ UNCHANGED nonRunsVars

\* the first n elements of seq
FirstN(seq, n) == SubSeq(seq, 1, IF Len(seq) < n THEN Len(seq) ELSE n)

\* optimized_views.py:88-97: a future completes with a result; it is kept,
\* and its links are added one level down while depth < max_depth
MResult(i) ==
    /\ m_phase = "batch"
    /\ i \in 1..Len(m_batch)
    /\ LET url == m_batch[i][1]
           depth == m_batch[i][2]
           links == FirstN(PageLinks(m_site, url), LinkLimit)
           added == IF depth < m_max_depth
                    THEN AddUrls(uq_queue, uq_processed, {}, links, depth + 1)
                    ELSE <<uq_queue, uq_processed, {}>>
       IN /\ m_results' = m_results \cup {url}
          /\ uq_queue' = added[1]
          /\ uq_processed' = added[2]
          /\ uq_puts' = PutsAfter(added[3])
          /\ m_admitted' = m_admitted \cup added[3]
    /\ m_batch' = RemoveAt(m_batch, i)
    /\ UNCHANGED <<m_run, m_phase, m_site, m_max_depth, m_seed, m_size,
                   m_count, m_before>>
    /\ UNCHANGED nonRunsVars

\* optimized_views.py:60-62, 88-90: scrape_url_optimized returned None (the
\* page or the checkout failed); the result is passed over
MNoResult(i) ==
    /\ m_phase = "batch"
    /\ i \in 1..Len(m_batch)
    /\ m_batch' = RemoveAt(m_batch, i)
    /\ UNCHANGED <<m_run, m_phase, m_site, m_max_depth, m_seed, m_size,
                   m_count, m_results, m_admitted, m_before, uq_queue,
                   uq_processed, uq_puts>>
    /\ UNCHANGED nonRunsVars

\* optimized_views.py:99: every future of the batch is done
MBatchEnd ==
    /\ m_phase = "batch"
    /\ m_batch = <<>>
    /\ m_count' = m_count + m_size
    /\ m_phase' = "loop"
    /\ UNCHANGED <<m_run, m_site, m_max_depth, m_seed, m_batch, m_size,
                   m_results, m_admitted, m_before, uq_queue, uq_processed,
                   uq_puts>>
    /\ UNCHANGED nonRunsVars

\* optimized_views.py:74, 81-82, 106: the limit is reached or the queue gave
\* nothing: all_results is returned
MReturn ==
    /\ m_phase = "loop"
    /\ m_count >= ProcessLimit \/ uq_queue = <<>>
    /\ m_phase' = "idle"
    /\ UNCHANGED <<m_run, m_site, m_max_depth, m_seed, m_batch, m_size,
                   m_count, m_results, m_admitted, m_before, uq_queue,
                   uq_processed, uq_puts>>
    /\ UNCHANGED nonRunsVars

RunsNext ==
    \/ MRunStart
    \/ MTakeBatch
    \/ \E i \in 1..NumUrls : MResult(i)
    \/ \E i \in 1..NumUrls : MNoResult(i)
    \/ MBatchEnd
    \/ MReturn

(***************************************************************************)
(* index (views.py:283-305): every POST starts a background thread that    *)
(* runs crawl_site, save_to_excel and then reports 'completed'.  The       *)
(* threads share the module globals scraped_data and scrape_progress.      *)
(***************************************************************************)
IndexRuns == 1..NumRuns

IndexInit ==
    /\ ix_data = <<>>
    /\ ix_status = "idle"
    /\ ix_pc = [r \in IndexRuns |-> "idle"]
    /\ ix_extracted = [r \in IndexRuns |-> {}]
    /\ ix_saved = [r \in IndexRuns |-> {}]

\* views.py:285-304: a POST with a url sets the status to 'started' and
\* starts the thread of the run
IndexPost(r) ==
    /\ ix_pc[r] = "idle"
    /\ ix_status' = "started"
    /\ ix_pc' = [ix_pc EXCEPT ![r] = "started"]
    /\ UNCHANGED <<ix_data, ix_extracted, ix_saved>>
    /\ UNCHANGED <<coreVars, urlVars, retryVars, tsqVars, taskVars>>

\* views.py:369-370: comprehensive_crawl_site rebinds the global
\* scraped_data to a new empty list
IxResetData(r) ==
    /\ ix_pc[r] = "started"
    /\ ix_data' = <<>>
    /\ ix_pc' = [ix_pc EXCEPT ![r] = "discover"]
    /\ UNCHANGED <<ix_status, ix_extracted, ix_saved>>
    /\ UNCHANGED <<coreVars, urlVars, retryVars, tsqVars, taskVars>>

\* views.py:400-405: after the discovery phase the status becomes 'running'
IxRunning(r) ==
    /\ ix_pc[r] = "discover"
    /\ ix_status' = "running"
    /\ ix_pc' = [ix_pc EXCEPT ![r] = "crawl"]
    /\ UNCHANGED <<ix_data, ix_extracted, ix_saved>>
    /\ UNCHANGED <<coreVars, urlVars, retryVars, tsqVars, taskVars>>

\* views.py:466-475: a page worker of run r appends the content item of
\* page p to whatever list the global scraped_data names at that moment
IxAppendContent(r, p) ==
    /\ ix_pc[r] = "crawl"
    /\ p \notin ix_extracted[r]
    /\ ix_data' = Append(ix_data, <<r, p>>)
    /\ ix_extracted' = [ix_extracted EXCEPT ![r] = @ \cup {p}]
    /\ UNCHANGED <<ix_status, ix_pc, ix_saved>>
    /\ UNCHANGED <<coreVars, urlVars, retryVars, tsqVars, taskVars>>

\* views.py:297-300, 196-239: the crawl of run r returns, save_to_excel
\* writes the entries of the global scraped_data as the data of the run and
\* the status becomes 'completed'
IxSaveAndComplete(r) ==
    /\ ix_pc[r] = "crawl"
    /\ ix_saved' = [ix_saved EXCEPT ![r] = {ix_data[i] : i \in 1..Len(ix_data)}]
    /\ ix_status' = "completed"
    /\ ix_pc' = [ix_pc EXCEPT ![r] = "done"]
    /\ UNCHANGED <<ix_data, ix_extracted>>
    /\ UNCHANGED <<coreVars, urlVars, retryVars, tsqVars, taskVars>>

\* views.py:297-299, 385, 196-239: an exception leaves the thread of run r:
\* create_driver raises before the discovery phase (it is called outside
\* every try block), or save_to_excel raises; scrape_and_save catches
\* nothing, so the thread ends without writing the status
IxRaises(r) ==
    /\ ix_pc[r] \in {"discover", "crawl"}
    /\ ix_pc' = [ix_pc EXCEPT ![r] = "raised"]
    /\ UNCHANGED <<ix_data, ix_status, ix_extracted, ix_saved>>
    /\ UNCHANGED <<coreVars, urlVars, retryVars, tsqVars, taskVars>>

IndexNext ==
    \/ \E r \in IndexRuns : IndexPost(r)
    \/ \E r \in IndexRuns : IxResetData(r)
    \/ \E r \in IndexRuns : IxRunning(r)
    \/ \E r \in IndexRuns, p \in Urls : IxAppendContent(r, p)
    \/ \E r \in IndexRuns : IxSaveAndComplete(r)
    \/ \E r \in IndexRuns : IxRaises(r)

(***************************************************************************)
(* URLValidator.normalize_url (async_requests.py:104-117) and              *)
(* EnhancedWebCrawler.is_valid_url (enhanced_crawler.py:143-151).  A url   *)
(* string is a sequence of the pieces of UrlTokens; every test the code    *)
(* makes on the characters of a string falls on a boundary of pieces.      *)
(***************************************************************************)
UrlTokens == {"http://", "https://", "HTTP://", "x.com", "X.com", ":80",
              "/a", "/a.js", "on", "#"}

UrlInit ==
    /\ n_pc = "new"
    /\ n_a = <<>>
    /\ n_b = <<>>
    /\ n_na = <<>>
    /\ n_nna = <<>>
    /\ n_nb = <<>>
    /\ n_valid = FALSE

\* async_requests.py:114  `url.startswith(('http://', 'https://'))`
StartsWithSchemeNever(url) == FALSE
StartsWithScheme(url) == url # <<>> /\ url[1] \in {"http://", "https://"}

\* async_requests.py:104-117 without base_url: the part before the first
\* '#' is kept and 'http://' is put in front unless it starts with a scheme
URLValidator_normalize_url(url) ==
    LET hashes == {i \in 1..Len(url) : url[i] = "#"}
        first == CHOOSE i \in hashes : \A j \in hashes : i <= j
        cut == IF hashes = {} THEN url ELSE SubSeq(url, 1, first - 1)
    IN IF ~StartsWithScheme(cut) THEN <<"http://">> \o cut ELSE cut

\* enhanced_crawler.py:143-151: urlparse takes the scheme (lower-cased), the
\* netloc up to the first '/' or '#' and the path up to the first '#'; the
\* url is valid when the scheme is http or https, the netloc is the base
\* netloc and no excluded extension occurs anywhere in the path
Enhanced_is_valid_url(url, base_netloc) ==
    LET rest == Tail(url)
        after == Tail(rest)
        hashes == {i \in 1..Len(after) : after[i] = "#"}
        first == CHOOSE i \in hashes : \A j \in hashes : i <= j
        path == IF hashes = {} THEN after ELSE SubSeq(after, 1, first - 1)
    IN /\ url # <<>>
       /\ url[1] \in {"http://", "https://", "HTTP://"}
       /\ rest # <<>>
       /\ rest[1] = base_netloc
       /\ Len(rest) = 1 \/ rest[2] \in {"/a", "/a.js", "#"}
       /\ ~ \E i \in 1..Len(path) : path[i] = "/a.js"

\* a url string a, and a string b that is a or differs from a only in a
\* fragment and, when a starts with a scheme and a host, in the letter case
\* of the scheme or of the host or in an explicit default port
NInput ==
    /\ n_pc = "new"
    /\ \E len \in 0..MaxUrlLen : \E a \in [1..len -> UrlTokens] :
          LET swap(t) == CASE t = "http://" -> "HTTP://"
                           [] t = "HTTP://" -> "http://"
                           [] t = "x.com" -> "X.com"
                           [] t = "X.com" -> "x.com"
                           [] OTHER -> t
              hosted == Len(a) >= 2 /\ a[1] \in {"http://", "https://", "HTTP://"}
                           /\ a[2] \in {"x.com", "X.com"}
              changed(cs, ch, port, frag) ==
                 <<IF cs THEN swap(a[1]) ELSE a[1], IF ch THEN swap(a[2]) ELSE a[2]>>
                    \o (IF port THEN <<":80">> ELSE <<>>)
                    \o SubSeq(a, 3, Len(a))
                    \o (IF frag THEN <<"#">> ELSE <<>>)
              variants ==
                 IF hosted
                 THEN {changed(cs, ch, port, frag) : cs, ch, port, frag \in BOOLEAN}
                 ELSE {a, a \o <<"#">>}
          IN \E b \in variants : n_a' = a /\ n_b' = b
    /\ n_pc' = "input"
    /\ UNCHANGED <<n_na, n_nna, n_nb, n_valid>>
    /\ UNCHANGED <<coreVars, indexVars, retryVars, tsqVars, taskVars>>

\* the functions are applied: normalize_url to both strings and to its own
\* result, is_valid_url of a crawler of site x.com to the first string
NApply ==
    /\ n_pc = "input"
    /\ n_na' = URLValidator_normalize_url(n_a)
    /\ n_nna' = URLValidator_normalize_url(URLValidator_normalize_url(n_a))
    /\ n_nb' = URLValidator_normalize_url(n_b)
    /\ n_valid' = Enhanced_is_valid_url(n_a, "x.com")
    /\ n_pc' = "done"
    /\ UNCHANGED <<n_a, n_b>>
    /\ UNCHANGED <<coreVars, indexVars, retryVars, tsqVars, taskVars>>

UrlNext ==
    \/ NInput
    \/ NApply

(***************************************************************************)
(* retry_failed_urls (tasks.py:137-159) and the recording of a failed      *)
(* scrape (update_url_status, tasks.py:108-118).                           *)
(***************************************************************************)
\* tasks.py:138  `max_retries=3`
max_retries == 3

RetryInit ==
    /\ r_status = [u \in Urls |-> "pending"]
    /\ r_error = [u \in Urls |-> ""]
    /\ r_calls = 0
    /\ r_resets = [u \in Urls |-> 0]

\* tasks.py:108-118: the scrape of a pending url failed; the row is marked
\* 'failed' with the error message
update_url_status(u, error_message) ==
    /\ r_status[u] = "pending"
    /\ r_status' = [r_status EXCEPT ![u] = "failed"]
    /\ r_error' = [r_error EXCEPT ![u] = error_message]
    /\ UNCHANGED <<r_calls, r_resets>>
    /\ UNCHANGED <<coreVars, indexVars, urlVars, tsqVars, taskVars>>

\* tasks.py:137-159: every failed row whose message holds 'timeout' is set
\* back to 'pending' and its message is cleared
retry_failed_urls ==
    /\ r_calls < MaxRetryCalls
    /\ LET reset == {u \in Urls : r_status[u] = "failed" /\ r_error[u] = "timeout"}
       IN /\ r_status' = [u \in Urls |-> IF u \in reset THEN "pending" ELSE r_status[u]]
          /\ r_error' = [u \in Urls |-> IF u \in reset THEN "" ELSE r_error[u]]
          /\ r_resets' = [u \in Urls |-> IF u \in reset THEN r_resets[u] + 1
                                         ELSE r_resets[u]]
    /\ r_calls' = r_calls + 1
    /\ UNCHANGED <<coreVars, indexVars, urlVars, tsqVars, taskVars>>

RetryNext ==
    \/ \E u \in Urls, msg \in {"timeout", "connection refused"} :
          update_url_status(u, msg)
    \/ retry_failed_urls

(***************************************************************************)
(* ThreadSafeQueue (threading_manager.py:93-133)                           *)
(***************************************************************************)
Threads == 1..NumThreads

TsqInit ==
    /\ tq_items = 0
    /\ tq_size = 0
    /\ tq_lock = 0
    /\ tq_pc = [t \in Threads |-> "idle"]

\* threading_manager.py:101-105 with the lock released right after
\* queue.put, before _size is incremented
TsqPutUnlocked(t) ==
    /\ tq_pc[t] = "idle"
    /\ tq_lock = 0
    /\ tq_items < MaxItems /\ tq_size < MaxItems
    /\ tq_items' = tq_items + 1
    /\ tq_pc' = [tq_pc EXCEPT ![t] = "put_size"]
    /\ UNCHANGED <<tq_size, tq_lock>>
    /\ UNCHANGED <<coreVars, indexVars, urlVars, retryVars, taskVars>>

\* threading_manager.py:101-104: put takes the lock and calls queue.put
TsqPut(t) ==
    /\ tq_pc[t] = "idle"
    /\ tq_lock = 0
    /\ tq_items < MaxItems /\ tq_size < MaxItems
    /\ tq_lock' = t
    /\ tq_items' = tq_items + 1
    /\ tq_pc' = [tq_pc EXCEPT ![t] = "put_size"]
    /\ UNCHANGED tq_size
    /\ UNCHANGED <<coreVars, indexVars, urlVars, retryVars, taskVars>>

\* threading_manager.py:105: _size += 1, then the `with` block ends
TsqPutSize(t) ==
    /\ tq_pc[t] = "put_size"
    /\ tq_size' = tq_size + 1
    /\ tq_lock' = 0
    /\ tq_pc' = [tq_pc EXCEPT ![t] = "idle"]
    /\ UNCHANGED tq_items
    /\ UNCHANGED <<coreVars, indexVars, urlVars, retryVars, taskVars>>

\* threading_manager.py:110: queue.get takes an item, the lock not held
TsqGet(t) ==
    /\ tq_pc[t] = "idle"
    /\ tq_items > 0
    /\ tq_items' = tq_items - 1
    /\ tq_pc' = [tq_pc EXCEPT ![t] = "get_size"]
    /\ UNCHANGED <<tq_size, tq_lock>>
    /\ UNCHANGED <<coreVars, indexVars, urlVars, retryVars, taskVars>>

\* threading_manager.py:110, 114-115: queue.get times out on the empty
\* queue; get returns None and nothing has changed
TsqGetEmpty(t) ==
    /\ tq_pc[t] = "idle"
    /\ tq_items = 0
    /\ UNCHANGED tsqVars
    /\ UNCHANGED <<coreVars, indexVars, urlVars, retryVars, taskVars>>

\* threading_manager.py:111-113: get takes the lock for _size -= 1
TsqGetSize(t) ==
    /\ tq_pc[t] = "get_size"
    /\ tq_lock = 0
    /\ tq_size' = tq_size - 1
    /\ tq_pc' = [tq_pc EXCEPT ![t] = "idle"]
    /\ UNCHANGED <<tq_items, tq_lock>>
    /\ UNCHANGED <<coreVars, indexVars, urlVars, retryVars, taskVars>>

\* threading_manager.py:126-133: clear empties the queue.Queue under the
\* lock; _size is not assigned
TsqClear(t) ==
    /\ tq_pc[t] = "idle"
    /\ tq_lock = 0
    /\ tq_items' = 0
    /\ UNCHANGED <<tq_size, tq_lock, tq_pc>>
    /\ UNCHANGED <<coreVars, indexVars, urlVars, retryVars, taskVars>>

\* threading_manager.py:121-124: qsize returns _size
qsize == tq_size

TsqNext ==
    \/ \E t \in Threads : TsqPut(t)
    \/ \E t \in Threads : TsqPutSize(t)
    \/ \E t \in Threads : TsqGet(t)
    \/ \E t \in Threads : TsqGetEmpty(t)
    \/ \E t \in Threads : TsqGetSize(t)
    \/ \E t \in Threads : TsqClear(t)

(***************************************************************************)
(* async_scrape_project (tasks.py:15-105)                                  *)
(***************************************************************************)
Tasks == 1..NumTasks

TaskInit ==
    /\ k_pc = [t \in Tasks |-> "queued"]
    /\ k_retries = [t \in Tasks |-> 0]
    /\ k_session = [t \in Tasks |-> "unbound"]
    /\ k_raised = [t \in Tasks |-> ""]

\* tasks.py:16-20: a worker starts a run of the task; `session` is a local
\* name of the run and is not assigned before the try
TaskBegin(t) ==
    /\ k_pc[t] = "queued"
    /\ k_pc' = [k_pc EXCEPT ![t] = "setup"]
    /\ k_session' = [k_session EXCEPT ![t] = "unbound"]
    /\ k_raised' = [k_raised EXCEPT ![t] = ""]
    /\ UNCHANGED k_retries
    /\ UNCHANGED <<coreVars, indexVars, urlVars, retryVars, tsqVars>>

\* tasks.py:21-34: the project is found and CrawlSession.objects.create
\* returns the session (status 'running')
TaskCreatesSession(t) ==
    /\ k_pc[t] = "setup"
    /\ k_session' = [k_session EXCEPT ![t] = "running"]
    /\ k_pc' = [k_pc EXCEPT ![t] = "scrape"]
    /\ UNCHANGED <<k_retries, k_raised>>
    /\ UNCHANGED <<coreVars, indexVars, urlVars, retryVars, tsqVars>>

\* tasks.py:21-34, 96-99: ScrapingProject.objects.get, project.config or
\* CrawlSession.objects.create raises; the handler evaluates `if session:`
\* with `session` unbound, UnboundLocalError leaves the task and self.retry
\* is not reached
TaskFailsBeforeSession(t) ==
    /\ k_pc[t] = "setup"
    /\ k_raised' = [k_raised EXCEPT ![t] = "UnboundLocalError"]
    /\ k_pc' = [k_pc EXCEPT ![t] = "failed"]
    /\ UNCHANGED <<k_retries, k_session>>
    /\ UNCHANGED <<coreVars, indexVars, urlVars, retryVars, tsqVars>>

\* tasks.py:36-94: the scrape runs and the session is marked 'completed'
TaskCompletes(t) ==
    /\ k_pc[t] = "scrape"
    /\ k_session' = [k_session EXCEPT ![t] = "completed"]
    /\ k_pc' = [k_pc EXCEPT ![t] = "returned"]
    /\ UNCHANGED <<k_retries, k_raised>>
    /\ UNCHANGED <<coreVars, indexVars, urlVars, retryVars, tsqVars>>

\* tasks.py:36-71, 96-105: an exception after the session was created; the
\* handler marks the session 'failed' and calls self.retry(exc=e), which
\* queues the task again while request.retries < max_retries and raises e
\* itself after that
TaskFailsInScrape(t) ==
    /\ k_pc[t] = "scrape"
    /\ k_session' = [k_session EXCEPT ![t] = "failed"]
    /\ k_raised' = [k_raised EXCEPT ![t] = "original"]
    /\ IF k_retries[t] < max_retries
       THEN /\ k_retries' = [k_retries EXCEPT ![t] = k_retries[t] + 1]
            /\ k_pc' = [k_pc EXCEPT ![t] = "queued"]
       ELSE /\ k_pc' = [k_pc EXCEPT ![t] = "failed"]
            /\ UNCHANGED k_retries
    /\ UNCHANGED <<coreVars, indexVars, urlVars, retryVars, tsqVars>>

TaskNext ==
    \/ \E t \in Tasks : TaskBegin(t)
    \/ \E t \in Tasks : TaskCreatesSession(t)
    \/ \E t \in Tasks : TaskFailsBeforeSession(t)
    \/ \E t \in Tasks : TaskCompletes(t)
    \/ \E t \in Tasks : TaskFailsInScrape(t)

CrawlNext ==
    \/ EnhNext
    \/ ViewsNext
    \/ OptCrawlNext

Init ==
    /\ PoolInit /\ UqInit /\ EnhInit /\ ViewsInit /\ CrawlInit
    /\ RateInit /\ ScrapeInit /\ RunsInit /\ IndexInit
    /\ UrlInit /\ RetryInit /\ TsqInit /\ TaskInit

SpecPools == Init /\ [][PoolNext]_vars

SpecQueue == Init /\ [][UqNext]_vars

SpecCrawl == Init /\ [][CrawlNext]_vars

SpecRate == Init /\ [][RateNext]_vars

SpecScrape == Init /\ [][ScrapeNext]_vars

SpecRuns == Init /\ [][RunsNext]_vars

SpecIndex == Init /\ [][IndexNext]_vars

\* the background thread of every run keeps running until it ends; nothing
\* obliges a user to POST
SpecIndexLive ==
    /\ Init /\ [][IndexNext]_vars
    /\ \A r \in IndexRuns :
          WF_vars(\/ IxResetData(r) \/ IxRunning(r) \/ IxSaveAndComplete(r)
                  \/ IxRaises(r) \/ \E p \in Urls : IxAppendContent(r, p))

SpecUrls == Init /\ [][UrlNext]_vars

SpecRetry == Init /\ [][RetryNext]_vars

\* crawl_site alone, every step of it taken when it stays possible: the
\* calling thread runs the loop and the executor runs every submitted page
\* (optimized_crawler.py:59-105, threading_manager.py:28-50)
SpecCrawlLive == Init /\ [][OptCrawlNext]_vars /\ WF_vars(OptCrawlNext)

SpecTsq == Init /\ [][TsqNext]_vars

SpecTask == Init /\ [][TaskNext]_vars

(***************************************************************************)
(* C1: a driver on which navigation or extraction raised is never handed   *)
(* out again: no worker that has just obtained a driver from get_driver    *)
(* (and has not yet navigated with it) holds a driver in `tainted`.        *)
(***************************************************************************)
C1_FailedDriverNeverReused ==
    \A w \in Workers :
        w_pc[w] \in {"wp_navigate", "cp_body"} => w_driver[w] \notin tainted

(***************************************************************************)
(* C2: the drivers a pool has created never exceed max_drivers:            *)
(* len(WebDriverPool._drivers) <= max_drivers and                          *)
(* ChromeDriverPool.created_drivers <= max_drivers.                        *)
(***************************************************************************)
C2_PoolBounded ==
    /\ Len(wp_drivers) <= MaxDrivers
    /\ cp_created <= MaxDrivers

\* a pool is full and a further worker is asking it for a driver
C2_Witness ==
    \/ Len(wp_drivers) = MaxDrivers /\ \E w \in Workers : w_pc[w] = "wp_get"
    \/ cp_created = MaxDrivers /\ \E w \in Workers : w_pc[w] = "cp_wait"

(***************************************************************************)
(* C3: no driver is held by two workers at the same time, and a driver     *)
(* that is held is not at the same time idle in its pool.                  *)
(***************************************************************************)
C3_ExclusiveCheckout ==
    /\ \A w1, w2 \in Workers :
          (w1 # w2 /\ w_driver[w1] # None) => w_driver[w1] # w_driver[w2]
    /\ \A w \in Workers :
          w_driver[w] # None =>
              /\ w_driver[w] \notin SeqToSet(wp_available)
              /\ w_driver[w] \notin SeqToSet(cp_queue)

\* a driver that went through a full checkout/return cycle is checked out
\* again while another worker holds a different driver of the same pool
C3_Witness ==
    \E w1, w2 \in Workers :
        /\ w1 # w2
        /\ w_driver[w1] # None
        /\ w_driver[w2] # None
        /\ w_driver[w1][1] = w_driver[w2][1]
        /\ w_driver[w1] \in tainted
        /\ w_pc[w1] \in {"wp_navigate", "cp_body"}

(***************************************************************************)
(* C4: under concurrent add_urls calls with overlapping lists every url is *)
(* put on the queue exactly once: a url is in processed_urls exactly when  *)
(* it was put once, it is never put a second time, and the queue holds no  *)
(* two tasks for the same url.                                             *)
(***************************************************************************)
C4_EachUrlPutOnce ==
    /\ \A u \in Urls : uq_puts[u] = IF u \in uq_processed THEN 1 ELSE 0
    /\ \A i, j \in 1..Len(uq_queue) :
          i # j => uq_queue[i][1] # uq_queue[j][1]

\* two callers are inside add_urls with lists that share a url which one of
\* them has already put; the other is about to test it
C4_Witness ==
    \E t1, t2 \in Callers :
        /\ t1 # t2
        /\ t_pc[t1] = "au_test"
        /\ t_pc[t2] = "au_lock"
        /\ \E u \in SeqToSet(t_urls[t1]) \cap SeqToSet(t_urls[t2]) :
              uq_puts[u] = 1

(***************************************************************************)
(* C5: in comprehensive_crawl_site a url is recorded as visited when it is *)
(* admitted to url_queue, so url_queue never holds two entries for the     *)
(* same url.                                                               *)
(***************************************************************************)
C5_QueueHasNoDuplicates ==
    /\ \A i \in 1..Len(v_queue) : v_queue[i][1] \in v_visited
    /\ \A i, j \in 1..Len(v_queue) :
          i # j => v_queue[i][1] # v_queue[j][1]

(***************************************************************************)
(* C6: a page whose render fails is re-attempted and is recorded as failed *)
(* only after retryLimit retries: with retryLimit = 2 a url in failed_urls *)
(* was attempted exactly three times.                                      *)
(***************************************************************************)
C6_FailedAfterThreeAttempts ==
    \A u \in DUrls : u \in e_failed => e_attempts[u] = 2 + 1

(***************************************************************************)
(* C7: in crawl_site the urls discovered on a page that was enqueued at    *)
(* depth d are enqueued at depth d + 1.                                    *)
(***************************************************************************)
C7_DepthPromotion ==
    \A p \in c_enq : p[2] = p[1] + 1

(***************************************************************************)
(* C8: crawl_site never renders a page that is more than max_depth link    *)
(* hops away from the seed along the path by which it was discovered.      *)
(***************************************************************************)
C8_RenderedWithinMaxDepth ==
    \A r \in c_rendered : r[2] <= c_max_depth

(***************************************************************************)
(* C9: in comprehensive_crawl_site and in crawl_with_flood_fill the links  *)
(* found on a page of depth d are enqueued with depth d + 1, and no task   *)
(* whose depth is greater than the maximum depth is loaded in a driver.    *)
(***************************************************************************)
C9_DepthPlusOneAndBounded ==
    /\ \A p \in v_enq : p[2] = p[1] + 1
    /\ \A p \in e_enq : p[2] = p[1] + 1
    /\ \A l \in v_loaded : l[2] <= max_depth
    /\ \A l \in e_loaded : l[2] <= MaxDepth

\* a task one level below the maximum depth, queued from a page at the
\* maximum depth, has come up: it is at the head of the Enhanced crawler's
\* queues, or a worker of comprehensive_crawl_site has returned [] for it
C9_Witness ==
    \/ /\ e_phase = "crawling"
       /\ ELoopCondition
       /\ ECurrent[2] = MaxDepth + 1
       /\ <<MaxDepth, MaxDepth + 1>> \in e_enq
       /\ ECurrent[1] \notin e_crawled
    \/ \E s \in Slots :
          /\ v_slot[s].pc = "finished"
          /\ v_slot[s].depth = max_depth + 1
          /\ v_slot[s].url \notin v_visited
          /\ <<max_depth, max_depth + 1>> \in v_enq

(***************************************************************************)
(* C10: in crawl_with_flood_fill a url the robots parser answers           *)
(* "disallowed" for is never loaded in the driver and is never added to    *)
(* failed_urls.                                                            *)
(***************************************************************************)
C10_DisallowedNeverLoaded ==
    \A u \in DUrls :
        (e_parser /\ u \in e_disallow /\ u \notin e_raises) =>
            /\ e_attempts[u] = 0
            /\ u \notin e_failed
            /\ \A l \in e_loaded : l[1] # u

\* a disallowed url, found as a link of a crawled page, was taken from a
\* queue and passed over, and the crawl went on to load another page
C10_Witness ==
    \E u \in e_robots_skipped :
        /\ e_parser
        /\ u \in e_disallow
        /\ u \in e_discovered
        /\ e_attempts[u] = 0
        /\ \E l \in e_loaded : l[1] > u

(***************************************************************************)
(* C11: comprehensive_crawl_site never renders a url that the site's       *)
(* robots.txt disallows: no disallowed url is given to driver.get.         *)
(***************************************************************************)
C11_ViewsNeverLoadsDisallowed ==
    \A l \in v_loaded : l[1] \notin v_disallow

(***************************************************************************)
(* C12: when robots.txt could not be loaded (robots_parser is None) or     *)
(* can_fetch raises for a url, is_allowed_by_robots answers True: the      *)
(* start url is admitted, no such url is passed over by the robots test,   *)
(* and the crawl loop is entered.                                          *)
(***************************************************************************)
C12_BrokenRobotsAllowsAll ==
    /\ (e_phase # "new" /\ ~e_parser) =>
          /\ StartUrl \in e_discovered
          /\ e_robots_skipped = {}
    /\ \A u \in e_robots_skipped : u \notin e_raises

\* a crawl without a robots parser has loaded two pages; or can_fetch raised
\* for a url that robots.txt lists as disallowed and the url was loaded
C12_Witness ==
    \/ /\ e_phase = "done"
       /\ ~e_parser
       /\ e_count >= 2
    \/ /\ e_parser
       /\ \E u \in e_raises \cap e_disallow : e_attempts[u] > 0

(***************************************************************************)
(* C13: RateLimiter._tokens stays within 0 <= _tokens <= rate_limit at     *)
(* every point where it can be observed.                                   *)
(***************************************************************************)
C13_TokensWithinBucket ==
    /\ 0 <= rl_tokens
    /\ rl_tokens <= RateLimit * TokenUnit

\* the number of acquire calls that returned at the ticks from..to
RECURSIVE GrantedIn(_, _)
GrantedIn(from, to) ==
    IF from > to THEN 0 ELSE rl_granted[from] + GrantedIn(from + 1, to)

(***************************************************************************)
(* C14: in a window shorter than capacity / R seconds (the time in which   *)
(* an empty bucket fills up: RateLimit * TokenUnit ticks) acquire grants   *)
(* at most rate_limit tokens.                                              *)
(***************************************************************************)
C14_BurstBound ==
    \A from, to \in Ticks :
        (from <= to /\ to - from < RateLimit * TokenUnit) =>
            GrantedIn(from, to) <= RateLimit

\* q is an initial part of r
IsPrefix(q, r) == Len(q) <= Len(r) /\ SubSeq(r, 1, Len(q)) = q

\* the step took the head of queue q (and maybe appended to it), or only
\* appended to it
FifoStep(q, r) == IsPrefix(q, r) \/ (q # <<>> /\ IsPrefix(Tail(q), r))

\* the step took something out of queue q
TookFrom(q, r) == ~IsPrefix(q, r)

(***************************************************************************)
(* C15: crawl_with_flood_fill takes its next task from the highest         *)
(* priority non-empty queue (priority_queue, then normal_queue, then       *)
(* flood_fill_queue), each queue loses tasks only at its head, and the     *)
(* task given to the driver is that head.                                  *)
(***************************************************************************)
C15_PopOrder ==
    [][ /\ FifoStep(e_priority, e_priority')
        /\ FifoStep(e_normal, e_normal')
        /\ FifoStep(e_flood, e_flood')
        /\ TookFrom(e_normal, e_normal') => e_priority = <<>>
        /\ TookFrom(e_flood, e_flood') => (e_priority = <<>> /\ e_normal = <<>>)
        /\ \A l \in e_loaded' \ e_loaded :
              \/ e_priority # <<>> /\ l = Head(e_priority)
              \/ e_priority = <<>> /\ e_normal # <<>> /\ l = Head(e_normal)
              \/ e_priority = <<>> /\ e_normal = <<>> /\ e_flood # <<>>
                    /\ l = Head(e_flood)
      ]_vars

\* two pages were crawled while a task is still waiting in normal_queue and
\* two more in priority_queue: the second page came from priority_queue
C15_Witness ==
    /\ e_phase = "crawling"
    /\ e_count >= 2
    /\ e_normal # <<>>
    /\ Len(e_priority) >= 2

(***************************************************************************)
(* C16: the urls of the initial sweep are queued at depth 0 in the highest *)
(* priority class: no link discovered on a page (a task of depth > 0) is   *)
(* given to the driver while a url of the sweep is still waiting.          *)
(***************************************************************************)
C16_SweepBeforeDiscovered ==
    (\E l \in e_loaded : l[2] > 0) =>
        /\ \A i \in 1..Len(e_normal) : e_normal[i][2] # 0
        /\ \A i \in 1..Len(e_priority) : e_priority[i][2] # 0
        /\ \A i \in 1..Len(e_flood) : e_flood[i][2] # 0

(***************************************************************************)
(* C17: a crawl_worker of OptimizedWebScraper stops only when the queue is *)
(* empty and no other worker is still processing a task: no worker has     *)
(* left its loop while another one holds a task.                           *)
(***************************************************************************)
C17_NoExitWhileInFlight ==
    \A w, v \in Scrapers :
        s_pc[w] = "exited" => s_pc[v] \notin {"process", "render"}

(***************************************************************************)
(* C18: WebDriverPool.get_driver never returns to its caller without a     *)
(* driver: when all max_drivers drivers are checked out it waits until one *)
(* is returned.                                                            *)
(***************************************************************************)
C18_GetDriverDelivers ==
    [][ \A w \in Workers :
           (w_pc[w] = "wp_get" /\ w_pc'[w] # "wp_get") => w_driver'[w] # None
      ]_vars

(***************************************************************************)
(* C19: a url whose worker could not obtain a driver is put back for a     *)
(* later attempt: when crawl_site is over, every url that was given to a   *)
(* worker was loaded in a driver or is still waiting in urls_to_process.   *)
(***************************************************************************)
C19_NoDriverUrlKept ==
    c_phase = "done" =>
        \A u \in {StartUrl} \cup c_visited :
            \/ \E r \in c_rendered : r[1] = u
            \/ \E k \in 1..Len(c_todo) : c_todo[k].url = u

(***************************************************************************)
(* C20: successive calls of scrape_multiple_urls are independent: a url    *)
(* that an earlier call admitted is admitted again when it is the seed of  *)
(* a later call.                                                           *)
(***************************************************************************)
C20_RunsIndependent ==
    (m_run >= 2 /\ m_seed \in m_before) => m_seed \in m_admitted

(***************************************************************************)
(* C21: when crawls started through index() overlap, the data saved for a  *)
(* finished run is exactly the content items that run extracted (none      *)
(* lost, none of another run), and while a run is crawling the progress    *)
(* status still reads the 'running' that run wrote.                        *)
(***************************************************************************)
C21_RunsIsolated ==
    \A r \in IndexRuns :
        /\ ix_pc[r] = "done" => ix_saved[r] = {<<r, p>> : p \in ix_extracted[r]}
        /\ ix_pc[r] = "crawl" => ix_status = "running"

(***************************************************************************)
(* C22: a crawl stops at its page limit.  In comprehensive_crawl_site the  *)
(* tasks handed to the page workers so far (those already counted and      *)
(* those in the running batch) never exceed max_urls, and                  *)
(* OptimizedWebCrawler.crawl_site never records more than max_pages pages  *)
(* in site_map.                                                            *)
(***************************************************************************)
C22_PageLimit ==
    /\ v_count + Cardinality({s \in Slots : v_slot[s].pc # "free"}) <= max_urls
    /\ Cardinality(c_processed) <= c_max_pages

(***************************************************************************)
(* C23: URLValidator.normalize_url is idempotent: normalizing the result   *)
(* of normalize_url(u) again gives the same string, for every u.           *)
(***************************************************************************)
C23_NormalizeIdempotent ==
    n_pc = "done" => n_nna = n_na

\* a url with a fragment and without a scheme has been normalized twice
C23_Witness ==
    /\ n_pc = "done"
    /\ \E i \in 1..Len(n_a) : n_a[i] = "#"
    /\ n_a[1] = "x.com"
    /\ n_na # n_a

(***************************************************************************)
(* C24: two urls that differ only in the letter case of scheme or host, in *)
(* the fragment or in an explicit default port normalize to the same       *)
(* string.                                                                 *)
(***************************************************************************)
C24_VariantsNormalizeEqual ==
    n_pc = "done" => n_na = n_nb

(***************************************************************************)
(* C28: EnhancedWebCrawler.is_valid_url accepts a url exactly when its     *)
(* scheme is http or https, its host is the base host and its path does    *)
(* not end in an excluded extension.                                       *)
(***************************************************************************)
C28_FilterRule ==
    n_pc = "done" =>
        LET hashes == {i \in 1..Len(n_a) : n_a[i] = "#"}
            first == CHOOSE i \in hashes : \A j \in hashes : i <= j
            nofrag == IF hashes = {} THEN n_a ELSE SubSeq(n_a, 1, first - 1)
        IN n_valid <=>
              /\ Len(nofrag) >= 2
              /\ nofrag[1] \in {"http://", "https://", "HTTP://"}
              /\ nofrag[2] = "x.com"
              /\ Len(nofrag) >= 3 => nofrag[3] \in {"/a", "/a.js"}
              /\ nofrag[Len(nofrag)] # "/a.js"

C27_RetriesBounded ==
    \A u \in Urls : r_resets[u] <= max_retries

(***************************************************************************)
(* C29: when OptimizedWebCrawler.crawl_site has finished with nothing left *)
(* to process, every url that was submitted (the start url and every url   *)
(* _discover_new_urls admitted) is a key of site_map or has raised the     *)
(* errors counter: the urls missing from site_map are no more than the     *)
(* errors counted.                                                         *)
(***************************************************************************)
C29_EveryUrlAccounted ==
    c_phase = "done" /\ c_todo = <<>> =>
        Cardinality((c_visited \cup {StartUrl}) \ c_processed) <= c_errors

(***************************************************************************)
(* C30: within one run of comprehensive_crawl_site every url is rendered   *)
(* at most once, also when it is queued several times and its entries are  *)
(* processed by different workers of one batch.                            *)
(***************************************************************************)
C30_RenderedAtMostOnce ==
    \A u \in Urls : v_loads[u] <= 1

\* two workers of one batch were given the same url; both have finished and
\* the url was rendered once
C30_Witness ==
    \E s1, s2 \in Slots :
        /\ s1 # s2
        /\ v_slot[s1].url = v_slot[s2].url
        /\ v_slot[s1].pc = "finished" /\ v_slot[s2].pc = "finished"
        /\ v_loads[v_slot[s1].url] = 1

(***************************************************************************)
(* C31: within one call of OptimizedWebCrawler.crawl_site no normalized    *)
(* url is submitted for processing more than once, the start url included. *)
(***************************************************************************)
C31_SubmittedOnce ==
    \A u \in DUrls : c_submits[u] <= 1

\* a page that links back to the start url has been handled, the link was
\* seen by _discover_new_urls, and the crawl went on to a further batch
C31_Witness ==
    /\ c_site = "loop"
    /\ StartUrl \in c_visited
    /\ \E u \in DUrls \ {StartUrl} : c_submits[u] = 1 /\ u \in c_processed
    /\ c_phase = "done"

(***************************************************************************)
(* C32: every scrape started through index() eventually sets the progress  *)
(* status to 'completed', also when the crawl or the export raises.        *)
(***************************************************************************)
C32_EventuallyCompleted ==
    \A r \in IndexRuns : (ix_pc[r] = "started") ~> (ix_status = "completed")

(***************************************************************************)
(* C33: after ChromeDriverPool.cleanup() the pool can be used again: no    *)
(* get_driver waits on the queue while the queue is empty and no driver is *)
(* checked out, i.e. for a driver that can never be returned.              *)
(***************************************************************************)
C33_UsableAfterCleanup ==
    \A w \in Workers :
        w_pc[w] = "cp_wait" =>
            \/ cp_queue # <<>>
            \/ \E x \in Workers : w_pc[x] \in {"cp_body", "cp_put"}

(***************************************************************************)
(* C35: WebDriverPool._available only holds drivers of _drivers, and a     *)
(* driver that was checked out over a close_all and returned afterwards is *)
(* not in _available, so get_driver cannot hand it out again.              *)
(***************************************************************************)
C35_ClosedNeverAvailable ==
    /\ SeqToSet(wp_available) \subseteq SeqToSet(wp_drivers)
    /\ wp_dropped \cap SeqToSet(wp_available) = {}

\* a driver was returned after close_all and refused, and the pool has since
\* made a new driver that is idle in _available
C35_Witness ==
    /\ wp_dropped # {}
    /\ wp_available # <<>>
    /\ \A w \in Workers : w_pc[w] = "idle"

(***************************************************************************)
(* C38: in ChromeDriverPool the drivers idle in the queue plus the drivers *)
(* checked out always number created_drivers, and the put_nowait of        *)
(* get_driver's finally clause never finds the queue full.                 *)
(***************************************************************************)
C38_CreatedAccounted ==
    /\ Len(cp_queue)
         + Cardinality({w \in Workers : w_pc[w] \in {"cp_body", "cp_put"}})
         = cp_created
    /\ \A w \in Workers : w_pc[w] = "cp_put" => Len(cp_queue) < MaxDrivers

(***************************************************************************)
(* C34: whenever no thread is inside put, get or clear of a                *)
(* ThreadSafeQueue, qsize() equals the number of items the queue holds.    *)
(***************************************************************************)
C34_QsizeIsItemCount ==
    (\A t \in Threads : tq_pc[t] = "idle") => qsize = tq_items

(***************************************************************************)
(* C36: a run of async_scrape_project that ended with an exception left    *)
(* its session, if one was created, 'failed', and went through self.retry  *)
(* with the original exception: the task is queued again, or its retries   *)
(* are used up and the original exception is what it raised.               *)
(***************************************************************************)
C36_FailureRetried ==
    \A t \in Tasks :
        k_raised[t] # "" =>
            /\ k_session[t] \in {"unbound", "failed"}
            /\ k_raised[t] = "original"
            /\ k_pc[t] = "queued" \/ k_retries[t] = max_retries

(***************************************************************************)
(* C39: ThreadSafeQueue._size is never negative, whatever the order in     *)
(* which the steps of concurrent put and get calls run.                    *)
(***************************************************************************)
C39_SizeNeverNegative == tq_size >= 0

\* get has taken the only item off the queue while the put that added it
\* has not counted it yet: _size is 0 and a decrement is pending
C39_Witness ==
    \E t1, t2 \in Threads :
        /\ tq_pc[t1] = "put_size"
        /\ tq_pc[t2] = "get_size"
        /\ tq_size = 0

(***************************************************************************)
(* C37: every call of crawl_site comes to an end: once the crawl loop has  *)
(* been entered, crawl_site eventually returns, for every site and every   *)
(* max_pages and max_depth.                                                *)
(***************************************************************************)
C37_CrawlTerminates == (c_phase = "loop") ~> (c_phase = "done")

\* crawl_site has returned from a site whose pages link in a cycle, after a
\* later page led back to a url that was already known
C37_Witness ==
    /\ c_phase = "done"
    /\ c_site = "loop"
    /\ c_todo = <<>>
    /\ Cardinality(c_processed) >= 2
    /\ c_processed \subseteq c_visited \cup {StartUrl}

====
